---- MODULE Spec2Model ----
(***************************************************************************)
(* Generation orchestration pipeline of ai-video-factory:                  *)
(*   - the task queue of VideoGenerator (processTask, handleGenerate,      *)
(*     handleProcessQueue, handleFileChange),                              *)
(*   - one run of generateVideo with its fallback (geminiService.ts, and   *)
(*     the earlier single-source service),                                 *)
(*   - findStockVideo, generateNarrationFromScript,                        *)
(*     generateScenesFromScript, generateMultiClipFallback.                *)
(* Text values are sequences of one-character strings, so that             *)
(* toLowerCase, includes, trim and concatenation are computed.             *)
(***************************************************************************)
EXTENDS Integers, Sequences, FiniteSets, TLC

VARIABLES
  tasks,        \* React state `tasks`: sequence of GenerationTask records
  rendered,     \* the `tasks` value of the last committed render (what handlers and buttons see)
  inflight,     \* queue level: captured task objects whose generateVideo promise is pending
  nextId,       \* number of ids handed out by crypto.randomUUID()
  version,      \* deployed service: "multi" (geminiService.ts) or "single" (earlier service)
  apiKeys,      \* settings: [pexelsApiKey, pixabayApiKey], "" when not configured
  pc,           \* position of the run of generateVideo (the await it is suspended at)
  finalScript,  \* generateVideo: let finalScript
  pollCount,    \* generateVideo: let pollCount
  operation,    \* generateVideo: let operation (the handle last returned)
  progressLog,  \* every onProgress message of the run, in order
  calls,        \* every external call issued by the run, in order (lookups excepted)
  narration,    \* the narration being synthesized / obtained: [ctx, vttContent, audioBlob]
  scenes,       \* generateMultiClipFallback: scenes of the segmentation response
  lookup,       \* the promises of findStockVideo, one per scene (or one for the prompt)
  stock,        \* one activation of findStockVideo, followed await by await
  videoBlob,    \* generateVideo: the downloaded payload, when there is one
  settled,      \* the promise of generateVideo: [state, value]
  caught,       \* generateVideo: the value caught by its catch block, once it ran
  player,       \* MultiClipPlayer: its state, refs and media elements (a record)
  errorMoves,   \* number of times processTask's catch moved the task to error
  history       \* App: React state `history`, the newest item first

queueVars == <<tasks, rendered, inflight, nextId>>
genVars   == <<version, apiKeys, pc, finalScript, pollCount, operation, progressLog,
               calls, narration, scenes, lookup, stock, videoBlob, settled, caught,
               player, errorMoves>>
vars      == <<tasks, rendered, inflight, nextId, version, apiKeys, pc, finalScript,
               pollCount, operation, progressLog, calls, narration, scenes, lookup, stock,
               videoBlob, settled, caught, player, errorMoves, history>>

\* no MultiClipPlayer is mounted
NoPlayer == [mounted |-> FALSE]

----------------------------------------------------------------------------
(* Bounds of the model *)

MaxTasks  == 2      \* tasks ever put in the queue
MaxPolls  == 2      \* polls after which the operation handle reports done
MaxScenes == 2      \* scenes in a segmentation response

----------------------------------------------------------------------------
(* Optional values: undefined is <<>>, a defined value x is <<x>> *)

None == <<>>
Some(x) == <<x>>
IsSome(o) == o # <<>>
TheValue(o) == o[1]

----------------------------------------------------------------------------
(* Text *)

UpperCase == <<"A","B","C","D","E","F","G","H","I","J","K","L","M",
               "N","O","P","Q","R","S","T","U","V","W","X","Y","Z">>
LowerCase == <<"a","b","c","d","e","f","g","h","i","j","k","l","m",
               "n","o","p","q","r","s","t","u","v","w","x","y","z">>

ToLowerChar(c) ==
  IF \E i \in 1..26 : UpperCase[i] = c
    THEN LowerCase[CHOOSE i \in 1..26 : UpperCase[i] = c]
    ELSE c

\* String.prototype.toLowerCase
ToLowerCase(s) == [i \in 1..Len(s) |-> ToLowerChar(s[i])]

\* String.prototype.includes
Includes(s, sub) ==
  \E i \in 0..(Len(s) - Len(sub)) : SubSeq(s, i + 1, i + Len(sub)) = sub

\* String.prototype.startsWith
StartsWith(s, pre) == Len(s) >= Len(pre) /\ SubSeq(s, 1, Len(pre)) = pre

IsSpace(c) == c \in {" ", "\n", "\t"}

\* String.prototype.trim
Trim(s) ==
  IF \A i \in 1..Len(s) : IsSpace(s[i]) THEN <<>>
  ELSE LET first == CHOOSE i \in 1..Len(s) :
                      ~IsSpace(s[i]) /\ \A j \in 1..(i - 1) : IsSpace(s[j])
           last  == CHOOSE i \in 1..Len(s) :
                      ~IsSpace(s[i]) /\ \A j \in (i + 1)..Len(s) : IsSpace(s[j])
       IN SubSeq(s, first, last)

\* JavaScript truthiness of a string
Truthy(s) == Len(s) > 0

----------------------------------------------------------------------------
(* Values thrown by external calls and by the code.  A thrown value is an  *)
(* Error with a message, or some other value whose String() is `message`.  *)

Err(m)    == [isError |-> TRUE,  message |-> m]
NonErr(m) == [isError |-> FALSE, message |-> m]   \* message holds String(value)

MsgQuotaExceeded == <<"Q","u","o","t","a"," ","e","x","c","e","e","d","e","d"," ","f","o","r"," ","p","r","o","j","e","c","t">>
MsgEntityNotFound == <<"R","e","q","u","e","s","t","e","d"," ","e","n","t","i","t","y"," ","w","a","s"," ","n","o","t"," ","f","o","u","n","d">>
MsgEntityNotFoundBilling == <<"R","e","q","u","e","s","t","e","d"," ","e","n","t","i","t","y"," ","w","a","s"," ","n","o","t"," ","f","o","u","n","d",":"," ","b","i","l","l","i","n","g"," ","a","c","c","o","u","n","t">>
MsgBillingUpper == <<"B","I","L","L","I","N","G"," ","d","i","s","a","b","l","e","d">>
MsgNetwork == <<"N","e","t","w","o","r","k"," ","e","r","r","o","r">>

\* what an external call may throw
Thrown == {Err(MsgQuotaExceeded), Err(MsgEntityNotFound), Err(MsgEntityNotFoundBilling),
           Err(MsgNetwork), NonErr(MsgBillingUpper), NonErr(MsgNetwork)}

\* values thrown by the calls that follow generateVideos
ThrownLater == {Err(MsgQuotaExceeded), Err(MsgNetwork)}

\* `error instanceof Error ? error.message : 'An unknown error occurred.'`
MsgUnknownError == <<"A","n"," ","u","n","k","n","o","w","n"," ","e","r","r","o","r"," ","o","c","c","u","r","r","e","d",".">>
TaskErrorMessage(error) == IF error.isError THEN error.message ELSE MsgUnknownError

\* literals of the services
GenericFallback == <<"h","t","t","p","s",":","/","/","s","t","o","r","a","g","e",".","g","o","o","g","l","e","a","p","i","s",".","c","o","m","/","g","t","v","-","v","i","d","e","o","s","-","b","u","c","k","e","t","/","s","a","m","p","l","e","/","F","o","r","B","i","g","g","e","r","F","u","n",".","m","p","4">>
VttHeader == <<"W","E","B","V","T","T">>

----------------------------------------------------------------------------
(* The task queue (VideoGenerator) *)

Voices == {"none", "Kore"}

\* A progress message: its text and the number formatted into it (0 when none)
Msg(text) == <<text, 0>>

ScriptAB    == <<"A"," ","B">>
ScriptBlank == <<" ">>
PromptCat   == <<"c","a","t">>

\* a task as handleGenerate / handleFileChange create it
NewTask(id, prompt, script, voice) ==
  [id |-> id, prompt |-> prompt, script |-> script, voice |-> voice,
   status |-> "pending", progressMessage |-> Msg("Waiting in queue..."),
   result |-> None, error |-> None]

\* currentTasks.map(t => t.id === id ? f(t) : t)
MapTask(ts, id, f(_)) == [k \in 1..Len(ts) |-> IF ts[k].id = id THEN f(ts[k]) ELSE ts[k]]

\* processTask, first setTasks: status generating, 'Starting...'
SetGenerating(ts, id) ==
  LET f(t) == [t EXCEPT !.status = "generating", !.progressMessage = Msg("Starting...")]
  IN MapTask(ts, id, f)

\* mutant of SetProgress: the callback writes the message to every record
SetProgressEveryRecord(ts, id, msg) ==
  [k \in 1..Len(ts) |-> [ts[k] EXCEPT !.progressMessage = msg]]

\* processTask, the onProgress callback: only progressMessage
SetProgress(ts, id, msg) ==
  LET f(t) == [t EXCEPT !.progressMessage = msg]
  IN MapTask(ts, id, f)

\* processTask, success: the record is replaced by {...task, status: 'success', result}
SetSuccess(ts, task, result) ==
  LET f(t) == [task EXCEPT !.status = "success", !.result = Some(result)]
  IN MapTask(ts, task.id, f)

\* mutant of SetError: the catch of processTask records the message only
SetErrorKeepsStatus(ts, id, error) ==
  LET f(t) == [t EXCEPT !.error = Some(TaskErrorMessage(error)),
                        !.progressMessage = Msg("Failed")]
  IN MapTask(ts, id, f)

\* processTask, catch: status error, the message, 'Failed'
SetError(ts, id, error) ==
  LET f(t) == [t EXCEPT !.status = "error", !.error = Some(TaskErrorMessage(error)),
                        !.progressMessage = Msg("Failed")]
  IN MapTask(ts, id, f)

\* tasks.some(t => t.status === s)
SomeStatus(ts, s) == \E k \in 1..Len(ts) : ts[k].status = s

\* mutant of PendingOf: the queue is dispatched without the status filter
PendingOfNoFilter(ts) == ts

\* tasks.filter(t => t.status === 'pending')
PendingOf(ts) == SelectSeq(ts, LAMBDA t : t.status = "pending")

\* mutant of SetGeneratingAll: only the first task of the list is started
SetGeneratingFirstOnly(ts, list) ==
  IF list = <<>> THEN ts ELSE SetGenerating(ts, Head(list).id)

\* the synchronous part of processTask for each task of a list, in order
RECURSIVE SetGeneratingAll(_, _)
SetGeneratingAll(ts, list) ==
  IF list = <<>> THEN ts
  ELSE SetGeneratingAll(SetGenerating(ts, Head(list).id), Tail(list))

SeqToSet(s) == {s[k] : k \in 1..Len(s)}

\* mutant of GenerateDisabled: a generating task does not disable the button
GenerateDisabledByScriptOnly(shown, script, voice) ==
  voice # "none" /\ ~Truthy(Trim(script))

\* disabled attribute of the Generate button
GenerateDisabled(shown, script, voice) ==
  SomeStatus(shown, "generating") \/ (voice # "none" /\ ~Truthy(Trim(script)))

\* disabled attribute of the Process Queue button
ProcessQueueDisabled(shown) ==
  ~SomeStatus(shown, "pending") \/ SomeStatus(shown, "generating")

\* The view committed after a click.  The click's updates are applied on
\* top of the view the click saw; updates queued by asynchronous
\* continuations may or may not be part of the same commit.
AfterClick(shownUpdated, current) == {shownUpdated, current}

\* results generateVideo may resolve to, as the queue sees them
QueueResults ==
  {[videoBlob |-> TRUE, videoUrls |-> None, isStitched |-> Some(FALSE),
    audioBlob |-> FALSE, vttContent |-> None, isFallback |-> FALSE],
   [videoBlob |-> FALSE, videoUrls |-> Some(<<GenericFallback>>), isStitched |-> Some(TRUE),
    audioBlob |-> TRUE, vttContent |-> Some(VttHeader), isFallback |-> TRUE]}

\* the result object processTask builds from resultData: an object URL for
\* each part that is present (truthy)
TaskResult(resultData) ==
  [videoUrl   |-> resultData.videoBlob,
   audioUrl   |-> resultData.audioBlob,
   vttUrl     |-> IsSome(resultData.vttContent) /\ Truthy(TheValue(resultData.vttContent)),
   videoUrls  |-> resultData.videoUrls,
   isStitched |-> resultData.isStitched,
   isFallback |-> resultData.isFallback]

\* the historyItem processTask builds for a successful task
HistoryItemOf(task, result) ==
  [id |-> task.id, prompt |-> task.prompt, script |-> task.script,
   videoUrl |-> result.videoUrl, videoUrls |-> result.videoUrls,
   isStitched |-> result.isStitched, audioUrl |-> result.audioUrl,
   vttUrl |-> result.vttUrl, isFallback |-> result.isFallback,
   status |-> "completed", voice |-> task.voice]

\* mutant of addVideoToHistory: the new item replaces the list
addVideoToHistoryAlone(prev, item) == <<item>>

\* addVideoToHistory: setHistory(prev => [item, ...prev]); React runs the
\* queued updaters in the order of the calls, each on the result of the one
\* before, and updateHistory(newHistory), called by the updater, stores and
\* sets that same list
addVideoToHistory(prev, item) == <<item>> \o prev

QueueProgress == {Msg("Initializing video generation..."), Msg("Downloading video...")}

\* handleGenerate: click on Generate with the form holding prompt, script, voice
handleGenerate ==
  \E prompt \in {<<>>, PromptCat}, voice \in Voices, script \in {<<>>, ScriptBlank, ScriptAB} :
    /\ ~GenerateDisabled(rendered, script, voice)
    /\ IF ~Truthy(Trim(prompt))
         THEN UNCHANGED queueVars
         ELSE /\ nextId < MaxTasks
              /\ LET newTask == NewTask(nextId + 1, prompt,
                                        IF voice # "none" THEN script ELSE <<>>, voice)
                 IN /\ tasks' = SetGenerating(<<newTask>> \o tasks, newTask.id)
                    /\ rendered' \in AfterClick(SetGenerating(<<newTask>> \o rendered, newTask.id),
                                                tasks')
                    /\ inflight' = inflight \cup {newTask}
              /\ nextId' = nextId + 1
    /\ UNCHANGED <<genVars, history>>

\* mutant of handleFileChange: the imported rows replace the queue
handleFileChangeReplacesQueue ==
  \E n \in 1..2, voice \in Voices :
    /\ nextId + n <= MaxTasks
    /\ tasks' = [k \in 1..n |-> NewTask(nextId + k, PromptCat, <<>>, voice)]
    /\ nextId' = nextId + n
    /\ UNCHANGED <<rendered, inflight>>
    /\ UNCHANGED <<genVars, history>>

\* handleFileChange: Papa.parse completes with n rows
handleFileChange ==
  \E n \in 1..2, voice \in Voices :
    /\ nextId + n <= MaxTasks
    /\ tasks' = tasks \o [k \in 1..n |-> NewTask(nextId + k, PromptCat, <<>>, voice)]
    /\ nextId' = nextId + n
    /\ UNCHANGED <<rendered, inflight>>
    /\ UNCHANGED <<genVars, history>>

\* handleProcessQueue: click on Process Queue
handleProcessQueue ==
  /\ ~ProcessQueueDisabled(rendered)
  /\ LET list == PendingOf(rendered)
     IN /\ tasks' = SetGeneratingAll(tasks, list)
        /\ rendered' \in AfterClick(SetGeneratingAll(rendered, list), tasks')
        /\ inflight' = inflight \cup SeqToSet(list)
  /\ UNCHANGED nextId
  /\ UNCHANGED <<genVars, history>>

\* React commits the pending updates
Render ==
  /\ rendered # tasks
  /\ rendered' = tasks
  /\ UNCHANGED <<tasks, inflight, nextId>>
  /\ UNCHANGED <<genVars, history>>

\* generateVideo of a running task calls onProgress
QueueProgressCallback ==
  \E task \in inflight, msg \in QueueProgress :
    /\ tasks' = SetProgress(tasks, task.id, msg)
    /\ UNCHANGED <<rendered, inflight, nextId>>
    /\ UNCHANGED <<genVars, history>>

\* generateVideo of a running task resolves: processTask continues after the await
QueueTaskResolved ==
  \E task \in inflight, resultData \in QueueResults :
    /\ tasks' = SetSuccess(tasks, task, TaskResult(resultData))
    /\ history' = addVideoToHistory(history, HistoryItemOf(task, TaskResult(resultData)))
    /\ inflight' = inflight \ {task}
    /\ UNCHANGED <<rendered, nextId>>
    /\ UNCHANGED genVars

\* generateVideo of a running task rejects: processTask's catch
QueueTaskRejected ==
  \E task \in inflight, error \in {Err(MsgNetwork), NonErr(MsgQuotaExceeded)} :
    /\ tasks' = SetError(tasks, task.id, error)
    /\ inflight' = inflight \ {task}
    /\ UNCHANGED <<rendered, nextId>>
    /\ UNCHANGED <<genVars, history>>

GenIdle ==
  /\ version = "multi"
  /\ apiKeys = [pexelsApiKey |-> <<>>, pixabayApiKey |-> <<>>]
  /\ pc = "idle"
  /\ finalScript = <<>>
  /\ pollCount = 0
  /\ operation = None
  /\ progressLog = <<>>
  /\ calls = <<>>
  /\ narration = [ctx |-> "none", vttContent |-> None, audioBlob |-> FALSE]
  /\ scenes = None
  /\ lookup = <<>>
  /\ stock = [prompt |-> <<>>, at |-> "idle", pexels |-> "notQueried",
              pixabay |-> "notQueried", url |-> None]
  /\ player = NoPlayer
  /\ videoBlob = FALSE
  /\ settled = [state |-> "pending", value |-> None]
  /\ caught = None
  /\ errorMoves = 0
  /\ history = <<>>

InitQueue ==
  /\ tasks = <<>>
  /\ rendered = <<>>
  /\ inflight = {}
  /\ nextId = 0
  /\ GenIdle

NextQueue ==
  \/ handleGenerate
  \/ handleFileChange
  \/ handleProcessQueue
  \/ Render
  \/ QueueProgressCallback
  \/ QueueTaskResolved
  \/ QueueTaskRejected

SpecQueue == InitQueue /\ [][NextQueue]_vars

\* the status steps a task may take
StatusStep(a, b) ==
  \/ a = b
  \/ <<a, b>> \in {<<"pending", "generating">>, <<"generating", "success">>,
                   <<"generating", "error">>}

\* C1: in every step of the queue, every task keeps its status or moves
\* pending -> generating, generating -> success or generating -> error; a
\* task that enters the queue enters it pending or (Generate) already
\* generating, never success or error.
C1_StatusMonotonic ==
  [][\A k \in 1..Len(tasks') :
       IF \E j \in 1..Len(tasks) : tasks[j].id = tasks'[k].id
         THEN \A j \in 1..Len(tasks) :
                tasks[j].id = tasks'[k].id => StatusStep(tasks[j].status, tasks'[k].status)
         ELSE tasks'[k].status \in {"pending", "generating"}]_vars

\* two tasks dispatched together, one ended in success and the other in error
C1_Witness ==
  /\ \E k \in 1..Len(tasks) : tasks[k].status = "success"
  /\ \E k \in 1..Len(tasks) : tasks[k].status = "error"
  /\ inflight = {}

----------------------------------------------------------------------------
(* One run of generateVideo, driven by processTask for the one task of the *)
(* queue.  An action is the code between two awaits.                       *)

\* the task being run and the object processTask captured
TheTask == tasks[1]
voice   == TheTask.voice

\* literals of generateVideo
MsgNoDownloadLink == <<"V","i","d","e","o"," ","g","e","n","e","r","a","t","i","o","n"," ","c","o","m","p","l","e","t","e","d",","," ","b","u","t"," ","n","o"," ","d","o","w","n","l","o","a","d"," ","l","i","n","k"," ","w","a","s"," ","f","o","u","n","d",".">>
MsgFailedDownload == <<"F","a","i","l","e","d"," ","t","o"," ","d","o","w","n","l","o","a","d"," ","v","i","d","e","o",":"," ">>
MsgApiKeyGuidance == <<"A","P","I"," ","k","e","y"," ","n","o","t"," ","f","o","u","n","d"," ","o","r"," ","i","n","v","a","l","i","d","."," ","P","l","e","a","s","e"," ","r","e","-","s","e","l","e","c","t"," ","y","o","u","r"," ","A","P","I"," ","k","e","y",".">>
MsgNoScript == <<"C","a","n","n","o","t"," ","g","e","n","e","r","a","t","e"," ","f","a","l","l","b","a","c","k"," ","w","i","t","h","o","u","t"," ","a"," ","s","c","r","i","p","t",".">>
MsgTtsFailed == <<"T","T","S"," ","g","e","n","e","r","a","t","i","o","n"," ","f","a","i","l","e","d",".">>
MsgFailedFallback == <<"F","a","i","l","e","d"," ","t","o"," ","l","o","a","d"," ","f","a","l","l","b","a","c","k"," ","v","i","d","e","o"," ","f","r","o","m"," ">>
Quota   == <<"q","u","o","t","a">>
Billing == <<"b","i","l","l","i","n","g">>

\* what the runtime throws on `scenes.length` of undefined and on JSON.parse
MsgTypeError   == <<"C","a","n","n","o","t"," ","r","e","a","d"," ","p","r","o","p","e","r","t","i","e","s"," ","o","f"," ","u","n","d","e","f","i","n","e","d">>
MsgSyntaxError == <<"U","n","e","x","p","e","c","t","e","d"," ","t","o","k","e","n">>

\* progress messages
PInit        == Msg("Initializing video generation...")
PFinalizing  == Msg("Finalizing video...")
PDownloading == Msg("Downloading video...")
PSuccess     == Msg("Video generation successful!")
PFallback    == Msg("Primary generation failed. Creating enhanced fallback...")
PQuotaStock  == Msg("Quota limit reached. Searching for stock footage...")

pollInterval == 10000

\* mutant of PInProgress: the minutes are truncated to whole minutes
PInProgressWholeMinutes(count) ==
  <<"Rendering in progress... (${minutesElapsed.toFixed(1)} min)",
    ((count * pollInterval) \div 60000) * 10>>

\* `Rendering in progress... (${minutesElapsed.toFixed(1)} min)`: the number
\* is (pollCount * pollInterval) / 60000 rounded to one decimal, in tenths
PInProgress(count) ==
  <<"Rendering in progress... (${minutesElapsed.toFixed(1)} min)",
    (count * pollInterval * 10 + 30000) \div 60000>>

\* errorMessage = error instanceof Error ? error.message : String(error)
ErrorMessageOf(error) == error.message

\* mutant of IsRecoverable: the comparison is case-sensitive
IsRecoverableCaseSensitive(errorMessage) ==
  Includes(errorMessage, Quota) \/ Includes(errorMessage, Billing)

\* the test of the fallback branch
IsRecoverable(errorMessage) ==
  Includes(ToLowerCase(errorMessage), Quota) \/ Includes(ToLowerCase(errorMessage), Billing)

\* the test of the authentication branch
IsAuthFailure(errorMessage) == Includes(errorMessage, MsgEntityNotFound)

\* the promise of generateVideo settles
Reject(error)   == settled' = [state |-> "rejected", value |-> Some(error)] /\ pc' = "settled"
Resolve(result) == settled' = [state |-> "resolved", value |-> Some(result)] /\ pc' = "settled"

\* every onProgress call is a setTasks of the task's progressMessage
TasksFollowLog ==
  tasks' = IF Len(progressLog') > Len(progressLog)
             THEN SetProgress(tasks, TheTask.id, progressLog'[Len(progressLog')])
             ELSE tasks

QueueFixed == UNCHANGED <<rendered, nextId, version, apiKeys, stock, player>>
RunFixed   == QueueFixed /\ UNCHANGED <<inflight, errorMoves, history>>

----------------------------------------------------------------------------
(* findStockVideo *)

\* what the keyword, Pexels and Pixabay calls may answer
PixabayMedium == <<"p","b","/","m","d","/">>

FileSd(q)   == [quality |-> "sd", file_type |-> "video/mp4", link |-> <<"p","x","/","s","d","/">> \o q]
FileHd(q)   == [quality |-> "hd", file_type |-> "video/mp4", link |-> <<"p","x","/","h","d","/">> \o q]
FileWebm(q) == [quality |-> "sd", file_type |-> "video/webm", link |-> <<"p","x","/","h","d","/">> \o q]

\* a response: threw (the call rejected), ok FALSE (non-OK), or ok with a body;
\* a body that cannot be parsed or lacks video_files makes the code throw
PexelsResponses(q) ==
  {[kind |-> "threw"], [kind |-> "nonOk"], [kind |-> "badBody"],
   [kind |-> "ok", videos |-> <<>>],
   [kind |-> "ok", videos |-> << <<FileWebm(q)>> >>],
   [kind |-> "ok", videos |-> << <<FileHd(q), FileSd(q)>> >>],
   [kind |-> "ok", videos |-> << <<FileWebm(q), FileHd(q)>> >>]}

PixabayResponses(q) ==
  {[kind |-> "threw"], [kind |-> "nonOk"], [kind |-> "badBody"],
   [kind |-> "ok", hits |-> <<>>],
   [kind |-> "ok", hits |-> << None >>],
   [kind |-> "ok", hits |-> << Some(PixabayMedium \o q) >>]}

\* Array.prototype.find: the first element satisfying the test, or undefined
Find(files, Test(_)) ==
  IF \E k \in 1..Len(files) : Test(files[k])
    THEN Some(files[CHOOSE k \in 1..Len(files) :
                      Test(files[k]) /\ \A j \in 1..(k - 1) : ~Test(files[j])])
    ELSE None

\* the MP4 file chosen from pexelsData.videos[0]
PexelsVideoFile(video_files) ==
  LET sd == Find(video_files, LAMBDA f : f.quality = "sd" /\ f.file_type = "video/mp4")
  IN IF IsSome(sd) THEN sd
     ELSE Find(video_files, LAMBDA f : f.file_type = "video/mp4")

\* the link the Pexels block returns, or None when it falls through
PexelsLink(response) ==
  IF response.kind # "ok" \/ response.videos = <<>> THEN None
  ELSE LET videoFile == PexelsVideoFile(response.videos[1])
       IN IF IsSome(videoFile) THEN Some(TheValue(videoFile).link) ELSE None

\* the url the Pixabay block returns, or None when it falls through
PixabayLink(response) ==
  IF response.kind # "ok" \/ response.hits = <<>> THEN None
  ELSE response.hits[1]

\* an activation of findStockVideo, suspended at the keyword call
StartLookup(prompt) ==
  [prompt |-> prompt, at |-> "keywords", pexels |-> "notQueried",
   pixabay |-> "notQueried", url |-> None]

\* how a provider call ended: threw, badBody, nonOk, empty, noFile or url
Outcome(response, link) ==
  IF response.kind # "ok" THEN response.kind
  ELSE IF IsSome(link) THEN "url"
  ELSE IF response = [kind |-> "ok", videos |-> <<>>] \/ response = [kind |-> "ok", hits |-> <<>>]
    THEN "empty"
  ELSE "noFile"

\* mutant of AfterKeywords: Pixabay is tried before Pexels
AfterKeywordsPixabayFirst(l, keys) ==
  IF Truthy(keys.pixabayApiKey) THEN [l EXCEPT !.at = "pixabay"]
  ELSE IF Truthy(keys.pexelsApiKey) THEN [l EXCEPT !.at = "pexels"]
  ELSE [l EXCEPT !.at = "done"]

\* findStockVideo after the keyword call returned
AfterKeywords(l, keys) ==
  IF Truthy(keys.pexelsApiKey) THEN [l EXCEPT !.at = "pexels"]
  ELSE IF Truthy(keys.pixabayApiKey) THEN [l EXCEPT !.at = "pixabay"]
  ELSE [l EXCEPT !.at = "done"]

\* findStockVideo after the Pexels call (fetch and json) ended: an exception
\* leaves the try block, a link is returned, anything else falls through
AfterPexels(l, keys, response) ==
  LET link == PexelsLink(response)
  IN IF response.kind \in {"threw", "badBody"}
       THEN [l EXCEPT !.at = "done", !.pexels = response.kind]
     ELSE IF IsSome(link)
       THEN [l EXCEPT !.at = "done", !.pexels = "url", !.url = link]
     ELSE IF Truthy(keys.pixabayApiKey)
       THEN [l EXCEPT !.at = "pixabay", !.pexels = Outcome(response, link)]
     ELSE [l EXCEPT !.at = "done", !.pexels = Outcome(response, link)]

\* mutant of AfterPixabay: an exception of the Pixabay call leaves findStockVideo
AfterPixabayUncaught(l, response) ==
  LET link == PixabayLink(response)
  IN IF response.kind \in {"threw", "badBody"}
       THEN [l EXCEPT !.at = "rejected", !.pixabay = response.kind]
       ELSE [l EXCEPT !.at = "done", !.pixabay = Outcome(response, link), !.url = link]

\* findStockVideo after the Pixabay call (fetch and json) ended
AfterPixabay(l, response) ==
  LET link == PixabayLink(response)
  IN [l EXCEPT !.at = "done", !.pixabay = Outcome(response, link), !.url = link]

\* findStockVideo from call to return, for the answers its calls get
FindStockVideo(prompt, keys, keywordsOk, pexelsResponse, pixabayResponse) ==
  LET l0 == StartLookup(prompt)
      l1 == IF keywordsOk THEN AfterKeywords(l0, keys) ELSE [l0 EXCEPT !.at = "done"]
      l2 == IF l1.at = "pexels" THEN AfterPexels(l1, keys, pexelsResponse) ELSE l1
      l3 == IF l2.at = "pixabay" THEN AfterPixabay(l2, pixabayResponse) ELSE l2
  IN l3.url

\* the promise findStockVideo(prompt, ...) returns, pending; rank becomes its
\* place in the order of completion
LookupPromise(prompt) == [prompt |-> prompt, state |-> "pending", url |-> None, rank |-> 0]

----------------------------------------------------------------------------
(* Narration, scenes and results *)

NoNarration == [ctx |-> "none", vttContent |-> None, audioBlob |-> FALSE]

\* texts the script service may return
ScriptTexts == {<<" ","A"," ","B"," ">>, <<" ">>}

\* caption documents the script service may return
\* (the grave accent is written "grave")
VttFence    == <<"grave","grave","grave">>
VttFenceVtt == <<"grave","grave","grave","v","t","t","\n">>
VttBody     == <<"0","0",":","0","0",".","0","0","0"," ","-","-",">"," ","0","0",":","0","2",".","5","0","0","\n","H","i">>
VttTexts == {VttHeader \o <<"\n","\n">> \o VttBody,
             VttBody \o <<"\n">>,
             VttFenceVtt \o VttHeader \o <<"\n","\n">> \o VttBody \o VttFence \o <<"\n">>,
             VttFence \o <<"\n">> \o VttHeader \o <<"\n","\n">> \o VttBody \o <<"\n">> \o VttFence}

\* String.prototype.replace of the fence patterns (three grave accents and
\* "vtt", newline; three grave accents), flag g, by the empty string
RECURSIVE RemoveFences(_)
RemoveFences(s) ==
  IF s = <<>> THEN <<>>
  ELSE IF StartsWith(s, VttFenceVtt) THEN RemoveFences(SubSeq(s, Len(VttFenceVtt) + 1, Len(s)))
  ELSE IF StartsWith(s, VttFence) THEN RemoveFences(SubSeq(s, Len(VttFence) + 1, Len(s)))
  ELSE <<Head(s)>> \o RemoveFences(Tail(s))

\* mutant of CleanVtt: the header is prepended without the startsWith test
CleanVttAlwaysPrepends(text) ==
  VttHeader \o <<"\n","\n">> \o RemoveFences(Trim(text))

\* vttContent of generateNarrationFromScript / generateNarration
CleanVtt(text) ==
  LET vttContent == RemoveFences(Trim(text))
  IN IF ~StartsWith(vttContent, VttHeader)
       THEN VttHeader \o <<"\n","\n">> \o vttContent
       ELSE vttContent

\* operation handles the media service may return
Operations == {[done |-> FALSE, hasLink |-> FALSE],
               [done |-> TRUE,  hasLink |-> TRUE],
               [done |-> TRUE,  hasLink |-> FALSE]}

\* response.statusText of a non-OK download
StatusTexts == {<<>>, <<"F","o","r","b","i","d","d","e","n">>,
                <<"Q","u","o","t","a"," ","E","x","c","e","e","d","e","d">>}

Scene(i) ==
  LET digit == <<"1","2","3","4","5","6","7","8","9">>[i]
  IN [scene_description |-> <<"d", digit>>, narration |-> <<"n", digit>>]

\* scenes of a response that does not follow the schema: a description or a
\* narration that is missing or empty
SceneNoDescription == [scene_description |-> <<>>, narration |-> <<"n", "1">>]
SceneNoNarration   == [scene_description |-> <<"d", "1">>, narration |-> <<>>]

\* parsed.scenes of the segmentation response: undefined, or a list
SceneLists ==
  {None} \cup {Some([i \in 1..n |-> Scene(i)]) : n \in 0..MaxScenes}
         \cup {Some(<<SceneNoDescription>>), Some(<<SceneNoNarration>>)}

\* mutant of ResultData: the narration is left out of the result
ResultDataNoNarration(blob, videoUrls, isStitched, narr, isFallback) ==
  [videoBlob |-> blob, videoUrls |-> videoUrls, isStitched |-> isStitched,
   audioBlob |-> FALSE, vttContent |-> None,
   isFallback |-> isFallback]

\* the object generateVideo resolves to
ResultData(blob, videoUrls, isStitched, narr, isFallback) ==
  [videoBlob |-> blob, videoUrls |-> videoUrls, isStitched |-> isStitched,
   audioBlob |-> narr.audioBlob, vttContent |-> narr.vttContent,
   isFallback |-> isFallback]

\* mutant of VideoUrls: the urls are listed in the order the lookups completed
VideoUrlsCompletionOrder(looks) ==
  [k \in 1..Len(looks) |->
     LET i == CHOOSE j \in 1..Len(looks) : looks[j].rank = k
     IN IF IsSome(looks[i].url) /\ Truthy(TheValue(looks[i].url))
          THEN TheValue(looks[i].url) ELSE GenericFallback]

\* resolvedVideoUrls.map(url => url || genericFallback)
VideoUrls(looks) ==
  [i \in 1..Len(looks) |->
     IF IsSome(looks[i].url) /\ Truthy(TheValue(looks[i].url))
       THEN TheValue(looks[i].url) ELSE GenericFallback]

----------------------------------------------------------------------------
(* generateVideo: the pieces shared by its steps.  Each sets pc,           *)
(* progressLog, calls, settled, lookup and caught; `log` is progressLog    *)
(* with the messages the step has emitted so far.                          *)

\* mutant of StartNarration: the speech call is made first
StartNarrationSpeechFirst(ctx, log) ==
  /\ narration' = [NoNarration EXCEPT !.ctx = ctx]
  /\ progressLog' = log \o <<Msg("Generating voiceover...")>>
  /\ calls' = Append(calls, "generateContent:tts")
  /\ pc' = "awaitTts"
  /\ UNCHANGED <<settled, lookup, caught>>

\* generateNarrationFromScript (multi) / generateNarration (single) is called
StartNarration(ctx, log) ==
  /\ narration' = [NoNarration EXCEPT !.ctx = ctx]
  /\ IF version = "multi"
       THEN /\ progressLog' = log \o <<Msg("Generating subtitles...")>>
            /\ calls' = Append(calls, "generateContent:vtt")
            /\ pc' = "awaitVtt"
       ELSE /\ progressLog' = log \o <<Msg("Generating script...")>>
            /\ calls' = Append(calls, "generateContent:script")
            /\ pc' = "awaitNarrationScript"
  /\ UNCHANGED <<settled, lookup, caught>>

\* the order of the tests of the catch block
Classify(errorMessage) ==
  IF IsRecoverable(errorMessage) THEN "fallback"
  ELSE IF IsAuthFailure(errorMessage) THEN "auth"
  ELSE "rethrow"

\* mutant of EnterFallback: the fallback does not test the script
EnterFallbackNoScriptTest(log) ==
  IF version = "multi"
    THEN /\ progressLog' = log \o <<PFallback, Msg("Breaking script into scenes...")>>
         /\ calls' = Append(calls, "generateContent:scenes")
         /\ pc' = "awaitScenes"
         /\ UNCHANGED <<settled, lookup>>
    ELSE /\ progressLog' = log \o <<PQuotaStock>>
         /\ lookup' = <<LookupPromise(TheTask.prompt)>>
         /\ pc' = "awaitStock"
         /\ UNCHANGED <<calls, settled>>

\* the fallback branch of the catch block
EnterFallback(log) ==
  IF version = "multi"
    THEN IF ~Truthy(finalScript)
           THEN /\ progressLog' = log \o <<PFallback>>
                /\ Reject(Err(MsgNoScript))
                /\ UNCHANGED <<calls, lookup>>
           ELSE /\ progressLog' = log \o <<PFallback, Msg("Breaking script into scenes...")>>
                /\ calls' = Append(calls, "generateContent:scenes")
                /\ pc' = "awaitScenes"
                /\ UNCHANGED <<settled, lookup>>
    ELSE /\ progressLog' = log \o <<PQuotaStock>>
         /\ lookup' = <<LookupPromise(TheTask.prompt)>>
         /\ pc' = "awaitStock"
         /\ UNCHANGED <<calls, settled>>

\* the catch block of generateVideo
Catch(error, log) ==
  /\ caught' = Some(error)
  /\ LET branch == Classify(ErrorMessageOf(error))
     IN IF branch = "fallback" THEN EnterFallback(log)
        ELSE /\ progressLog' = log
             /\ Reject(IF branch = "auth" THEN Err(MsgApiKeyGuidance) ELSE error)
             /\ UNCHANGED <<calls, lookup>>

\* mutant of FallbackFailure: a failure inside the fallback is classified again
FallbackFailureClassified(error, log) == Catch(error, log)

\* a failure inside the fallback path: the promise rejects with it
FallbackFailure(error, log) ==
  /\ progressLog' = log
  /\ Reject(error)
  /\ UNCHANGED <<calls, lookup, caught>>

\* a failure of the narration: thrown into the try block of generateVideo
\* (primary path) or out of the catch block (fallback path)
NarrationFailure(error, log) ==
  IF narration.ctx = "primary" THEN Catch(error, log) ELSE FallbackFailure(error, log)

\* the primary path returns
Success(narr, log) ==
  /\ progressLog' = log \o <<PSuccess>>
  /\ Resolve(ResultData(TRUE, None, IF version = "multi" THEN Some(FALSE) ELSE None,
                        narr, FALSE))
  /\ UNCHANGED <<calls, lookup, caught>>

\* mutant of AfterOperation: 'Downloading video...' precedes 'Finalizing video...'
AfterOperationDownloadingFirst(op, log) ==
  IF ~op.done
    THEN /\ progressLog' = log
         /\ pc' = "awaitTimer"
         /\ UNCHANGED <<calls, settled, lookup, caught>>
  ELSE IF ~op.hasLink
    THEN Catch(Err(MsgNoDownloadLink), log \o <<PFinalizing>>)
  ELSE /\ progressLog' = log \o <<PDownloading, PFinalizing>>
       /\ calls' = Append(calls, "fetch:video")
       /\ pc' = "awaitFetch"
       /\ UNCHANGED <<settled, lookup, caught>>

\* the while condition and what follows the loop, for the handle `op`
AfterOperation(op, log) ==
  IF ~op.done
    THEN /\ progressLog' = log
         /\ pc' = "awaitTimer"
         /\ UNCHANGED <<calls, settled, lookup, caught>>
  ELSE IF ~op.hasLink
    THEN Catch(Err(MsgNoDownloadLink), log \o <<PFinalizing>>)
  ELSE /\ progressLog' = log \o <<PFinalizing, PDownloading>>
       /\ calls' = Append(calls, "fetch:video")
       /\ pc' = "awaitFetch"
       /\ UNCHANGED <<settled, lookup, caught>>

\* mutant of StartLookups: only the lookup of the first scene is issued
StartLookupsFirstOnly(sc, log) ==
  IF sc = None
    THEN FallbackFailure(Err(MsgTypeError), log)
    ELSE /\ progressLog' = log \o << <<"Searching for ${scenes.length} video clips...",
                                       Len(TheValue(sc))>> >>
         /\ lookup' = [i \in 1..(IF Len(TheValue(sc)) > 0 THEN 1 ELSE 0) |->
                         LookupPromise(TheValue(sc)[i].scene_description)]
         /\ pc' = "awaitLookups"
         /\ UNCHANGED <<calls, settled, caught>>

\* generateMultiClipFallback from 'Searching for N video clips...' on
StartLookups(sc, log) ==
  IF sc = None
    THEN FallbackFailure(Err(MsgTypeError), log)
    ELSE /\ progressLog' = log \o << <<"Searching for ${scenes.length} video clips...",
                                       Len(TheValue(sc))>> >>
         /\ lookup' = [i \in 1..Len(TheValue(sc)) |->
                         LookupPromise(TheValue(sc)[i].scene_description)]
         /\ pc' = "awaitLookups"
         /\ UNCHANGED <<calls, settled, caught>>

\* single-source fallback from videoUrlToFetch on
StartFallbackFetch(log) ==
  /\ progressLog' = log \o <<IF IsSome(lookup[1].url) /\ Truthy(TheValue(lookup[1].url))
                               THEN Msg("Fetching footage from Pexels/Pixabay...") ELSE Msg("Fetching generic fallback...")>>
  /\ calls' = Append(calls, "fetch:fallback")
  /\ pc' = "awaitFallbackFetch"
  /\ UNCHANGED <<settled, lookup, caught>>

----------------------------------------------------------------------------
(* The steps of the run *)

\* processTask is called with the pending task: setTasks generating, then
\* generateVideo runs to its first await
processTask ==
  /\ pc = "idle"
  /\ TheTask.status = "pending"
  /\ inflight' = {TheTask}
  /\ LET needScript == version = "multi" /\ ~Truthy(TheTask.script) /\ voice # "none"
     IN /\ progressLog' = IF needScript THEN <<PInit, Msg("Generating script...")>> ELSE <<PInit>>
        /\ calls' = IF needScript THEN <<"generateContent:script">> ELSE <<"generateVideos">>
        /\ pc' = IF needScript THEN "awaitScript" ELSE "awaitGenerateVideos"
        /\ finalScript' = IF version = "multi" THEN TheTask.script ELSE <<>>
        /\ tasks' = SetProgress(SetGenerating(tasks, TheTask.id), TheTask.id,
                                progressLog'[Len(progressLog')])
  /\ UNCHANGED <<pollCount, operation, narration, scenes, lookup, videoBlob, settled,
                 caught, errorMoves, history>>
  /\ QueueFixed

\* generateScript returns or throws (before the try block)
ScriptReturn ==
  /\ pc = "awaitScript"
  /\ \/ \E error \in Thrown :
          /\ Reject(error)
          /\ UNCHANGED <<finalScript, calls, caught>>
     \/ \E text \in ScriptTexts :
          /\ finalScript' = Trim(text)
          /\ calls' = Append(calls, "generateVideos")
          /\ pc' = "awaitGenerateVideos"
          /\ UNCHANGED <<settled, caught>>
  /\ UNCHANGED <<pollCount, operation, progressLog, narration, scenes, lookup, videoBlob>>
  /\ TasksFollowLog /\ RunFixed

\* ai.models.generateVideos returns a handle or throws
GenerateVideosReturn ==
  /\ pc = "awaitGenerateVideos"
  /\ \/ \E error \in Thrown : Catch(error, progressLog) /\ UNCHANGED operation
     \/ \E op \in Operations :
          /\ operation' = Some(op)
          /\ AfterOperation(op, progressLog \o <<Msg("Video rendering started. This may take a few minutes...")>>)
  /\ UNCHANGED <<finalScript, pollCount, narration, scenes, videoBlob>>
  /\ TasksFollowLog /\ RunFixed

\* the poll timer fires: the progress message, then getVideosOperation is called
TimerFires ==
  /\ pc = "awaitTimer"
  /\ pollCount' = pollCount + 1
  /\ progressLog' = Append(progressLog, PInProgress(pollCount'))
  /\ calls' = Append(calls, "getVideosOperation")
  /\ pc' = "awaitGetOperation"
  /\ UNCHANGED <<finalScript, operation, narration, scenes, lookup, videoBlob, settled,
                 caught>>
  /\ TasksFollowLog /\ RunFixed

\* getVideosOperation returns a handle or throws; the handle is done at the
\* latest after MaxPolls polls
GetOperationReturn ==
  /\ pc = "awaitGetOperation"
  /\ \/ \E error \in ThrownLater : Catch(error, progressLog) /\ UNCHANGED operation
     \/ \E op \in Operations :
          /\ pollCount >= MaxPolls => op.done
          /\ operation' = Some(op)
          /\ AfterOperation(op, progressLog)
  /\ UNCHANGED <<finalScript, pollCount, narration, scenes, videoBlob>>
  /\ TasksFollowLog /\ RunFixed

\* fetch of the download link returns or throws
FetchReturn ==
  /\ pc = "awaitFetch"
  /\ \/ \E error \in ThrownLater : Catch(error, progressLog)
     \/ \E statusText \in StatusTexts :
          Catch(Err(MsgFailedDownload \o statusText), progressLog)
     \/ /\ pc' = "awaitBlob"
        /\ UNCHANGED <<progressLog, calls, settled, lookup, caught>>
  /\ UNCHANGED <<finalScript, pollCount, operation, narration, scenes, videoBlob>>
  /\ TasksFollowLog /\ RunFixed

\* response.blob() returns or throws; then narration or the result
BlobReturn ==
  /\ pc = "awaitBlob"
  /\ \/ \E error \in ThrownLater :
          Catch(error, progressLog) /\ UNCHANGED <<videoBlob, narration>>
     \/ /\ videoBlob' = TRUE
        /\ IF voice # "none" /\ (version = "single" \/ Truthy(finalScript))
             THEN StartNarration("primary", progressLog)
             ELSE Success(NoNarration, progressLog) /\ UNCHANGED narration
  /\ UNCHANGED <<finalScript, pollCount, operation, scenes>>
  /\ TasksFollowLog /\ RunFixed

\* generateNarration (single): the script call returns or throws
NarrationScriptReturn ==
  /\ pc = "awaitNarrationScript"
  /\ \/ \E error \in ThrownLater : NarrationFailure(error, progressLog)
     \/ \E text \in ScriptTexts :
          /\ progressLog' = Append(progressLog, Msg("Generating subtitles..."))
          /\ calls' = Append(calls, "generateContent:vtt")
          /\ pc' = "awaitVtt"
          /\ UNCHANGED <<settled, lookup, caught>>
  /\ UNCHANGED <<finalScript, pollCount, operation, narration, scenes, videoBlob>>
  /\ TasksFollowLog /\ RunFixed

\* the caption call returns or throws
VttReturn ==
  /\ pc = "awaitVtt"
  /\ \/ \E error \in ThrownLater : NarrationFailure(error, progressLog) /\ UNCHANGED narration
     \/ \E text \in VttTexts :
          /\ narration' = [narration EXCEPT !.vttContent = Some(CleanVtt(text))]
          /\ progressLog' = Append(progressLog, Msg("Generating voiceover..."))
          /\ calls' = Append(calls, "generateContent:tts")
          /\ pc' = "awaitTts"
          /\ UNCHANGED <<settled, lookup, caught>>
  /\ UNCHANGED <<finalScript, pollCount, operation, scenes, videoBlob>>
  /\ TasksFollowLog /\ RunFixed

\* mutant of TtsReturn: a response without audio data is not tested
TtsReturnAudioNotTested ==
  /\ pc = "awaitTts"
  /\ \/ \E error \in ThrownLater :
          NarrationFailure(error, progressLog) /\ UNCHANGED narration
     \/ \E base64Audio \in BOOLEAN :
          /\ narration' = [narration EXCEPT !.audioBlob = base64Audio]
          /\ IF narration.ctx = "primary" THEN Success(narration', progressLog)
             ELSE IF version = "multi" THEN StartLookups(scenes, progressLog)
             ELSE StartFallbackFetch(progressLog)
  /\ UNCHANGED <<finalScript, pollCount, operation, scenes, videoBlob>>
  /\ TasksFollowLog /\ RunFixed

\* the speech call returns (with or without audio data) or throws; the
\* caller of the narration continues
TtsReturn ==
  /\ pc = "awaitTts"
  /\ \/ \E error \in ThrownLater \cup {Err(MsgTtsFailed)} :
          NarrationFailure(error, progressLog) /\ UNCHANGED narration
     \/ /\ narration' = [narration EXCEPT !.audioBlob = TRUE]
        /\ IF narration.ctx = "primary" THEN Success(narration', progressLog)
           ELSE IF version = "multi" THEN StartLookups(scenes, progressLog)
           ELSE StartFallbackFetch(progressLog)
  /\ UNCHANGED <<finalScript, pollCount, operation, scenes, videoBlob>>
  /\ TasksFollowLog /\ RunFixed

\* generateScenesFromScript returns or throws; then narration or the lookups
ScenesReturn ==
  /\ pc = "awaitScenes"
  /\ \/ \E error \in ThrownLater \cup {Err(MsgSyntaxError)} :
          FallbackFailure(error, progressLog) /\ UNCHANGED <<scenes, narration>>
     \/ \E sc \in SceneLists :
          /\ scenes' = sc
          /\ IF voice # "none"
               THEN StartNarration("fallback", progressLog)
               ELSE StartLookups(sc, progressLog) /\ UNCHANGED narration
  /\ UNCHANGED <<finalScript, pollCount, operation, videoBlob>>
  /\ TasksFollowLog /\ RunFixed

\* one of the pending findStockVideo promises resolves (it never rejects)
LookupSettles ==
  /\ pc \in {"awaitLookups", "awaitStock"}
  /\ \E i \in DOMAIN lookup :
       /\ lookup[i].state = "pending"
       /\ \E url \in {FindStockVideo(lookup[i].prompt, apiKeys, keywordsOk,
                                      pexelsResponse, pixabayResponse) :
                         keywordsOk \in BOOLEAN,
                         pexelsResponse \in PexelsResponses(lookup[i].prompt),
                         pixabayResponse \in PixabayResponses(lookup[i].prompt)} :
            lookup' = [lookup EXCEPT ![i] =
                         [prompt |-> lookup[i].prompt, state |-> "resolved", url |-> url,
                          rank |-> 1 + Cardinality({j \in DOMAIN lookup :
                                                     lookup[j].state = "resolved"})]]
  /\ UNCHANGED <<pc, finalScript, pollCount, operation, progressLog, calls, narration,
                 scenes, videoBlob, settled, caught>>
  /\ TasksFollowLog /\ RunFixed

\* Promise.all of the lookups resolves: the stitched result
LookupsSettled ==
  /\ pc = "awaitLookups"
  /\ \A i \in DOMAIN lookup : lookup[i].state = "resolved"
  /\ progressLog' = Append(progressLog, Msg("Multi-clip video compiled!"))
  /\ Resolve(ResultData(FALSE, Some(VideoUrls(lookup)), Some(TRUE), narration, TRUE))
  /\ UNCHANGED <<finalScript, pollCount, operation, calls, narration, scenes, lookup,
                 videoBlob, caught>>
  /\ TasksFollowLog /\ RunFixed

\* single-source fallback: findStockVideo resolved; narration or the fetch
StockSettled ==
  /\ pc = "awaitStock"
  /\ lookup[1].state = "resolved"
  /\ IF voice # "none"
       THEN StartNarration("fallback", progressLog)
       ELSE StartFallbackFetch(progressLog) /\ UNCHANGED narration
  /\ UNCHANGED <<finalScript, pollCount, operation, scenes, videoBlob>>
  /\ TasksFollowLog /\ RunFixed

\* mutant of VideoUrlToFetch: the placeholder is fetched whatever was found
VideoUrlToFetchPlaceholder == GenericFallback

\* the url the single-source fallback fetches
VideoUrlToFetch == VideoUrls(lookup)[1]

\* single-source fallback: the fetch of the fallback video returns or throws
FallbackFetchReturn ==
  /\ pc = "awaitFallbackFetch"
  /\ \/ \E error \in ThrownLater \cup {Err(MsgFailedFallback \o VideoUrlToFetch \o <<".">>)} :
          FallbackFailure(error, progressLog)
     \/ /\ pc' = "awaitFallbackBlob"
        /\ UNCHANGED <<progressLog, calls, settled, lookup, caught>>
  /\ UNCHANGED <<finalScript, pollCount, operation, narration, scenes, videoBlob>>
  /\ TasksFollowLog /\ RunFixed

\* single-source fallback: response.blob() returns or throws; the result
FallbackBlobReturn ==
  /\ pc = "awaitFallbackBlob"
  /\ \/ \E error \in ThrownLater :
          FallbackFailure(error, progressLog) /\ UNCHANGED videoBlob
     \/ /\ videoBlob' = TRUE
        /\ progressLog' = Append(progressLog, Msg("Fallback video compiled successfully!"))
        /\ Resolve(ResultData(TRUE, None, None, narration, TRUE))
        /\ UNCHANGED <<calls, lookup, caught>>
  /\ UNCHANGED <<finalScript, pollCount, operation, narration, scenes>>
  /\ TasksFollowLog /\ RunFixed

\* processTask after the await: generateVideo resolved
ProcessTaskSuccess ==
  /\ pc = "settled" /\ settled.state = "resolved"
  /\ \E task \in inflight :
       /\ tasks' = SetSuccess(tasks, task, TaskResult(TheValue(settled.value)))
       /\ history' = addVideoToHistory(history,
                                       HistoryItemOf(task, TaskResult(TheValue(settled.value))))
       /\ inflight' = inflight \ {task}
  /\ pc' = "done"
  /\ UNCHANGED <<finalScript, pollCount, operation, progressLog, calls, narration, scenes,
                 lookup, videoBlob, settled, caught, errorMoves>>
  /\ QueueFixed

\* processTask's catch: generateVideo rejected
ProcessTaskCatch ==
  /\ pc = "settled" /\ settled.state = "rejected"
  /\ \E task \in inflight :
       /\ tasks' = SetError(tasks, task.id, TheValue(settled.value))
       /\ inflight' = inflight \ {task}
  /\ errorMoves' = errorMoves + 1
  /\ pc' = "done"
  /\ UNCHANGED <<finalScript, pollCount, operation, progressLog, calls, narration, scenes,
                 lookup, videoBlob, settled, caught, history>>
  /\ QueueFixed

\* the requests the UI makes: silent voice without script, a voice without
\* script (CSV import), a voice with the script of the form
Requests == {<<"none", <<>>>>, <<"Kore", <<>>>>, <<"Kore", ScriptAB>>}

KeyValues == {<<>>, <<"k">>}

\* a pending task about to be processed; both provider keys are set or
\* neither is (SpecStock follows findStockVideo under every key setting)
InitGen ==
  /\ \E r \in Requests : tasks = <<NewTask(1, PromptCat, r[2], r[1])>>
  /\ rendered = tasks
  /\ inflight = {}
  /\ nextId = 1
  /\ version \in {"multi", "single"}
  /\ apiKeys \in {[pexelsApiKey |-> k, pixabayApiKey |-> k] : k \in KeyValues}
  /\ pc = "idle"
  /\ finalScript = <<>>
  /\ pollCount = 0
  /\ operation = None
  /\ progressLog = <<>>
  /\ calls = <<>>
  /\ narration = NoNarration
  /\ scenes = None
  /\ lookup = <<>>
  /\ stock = [prompt |-> <<>>, at |-> "idle", pexels |-> "notQueried",
              pixabay |-> "notQueried", url |-> None]
  /\ player = NoPlayer
  /\ videoBlob = FALSE
  /\ settled = [state |-> "pending", value |-> None]
  /\ caught = None
  /\ errorMoves = 0
  /\ history = <<>>

NextGen ==
  \/ processTask
  \/ ScriptReturn
  \/ GenerateVideosReturn
  \/ TimerFires
  \/ GetOperationReturn
  \/ FetchReturn
  \/ BlobReturn
  \/ NarrationScriptReturn
  \/ VttReturn
  \/ TtsReturn
  \/ ScenesReturn
  \/ LookupSettles
  \/ LookupsSettled
  \/ StockSettled
  \/ FallbackFetchReturn
  \/ FallbackBlobReturn
  \/ ProcessTaskSuccess
  \/ ProcessTaskCatch

SpecGen == InitGen /\ [][NextGen]_vars

\* every external call eventually returns or throws, and every continuation runs
SpecGenFair == SpecGen /\ WF_vars(NextGen)

----------------------------------------------------------------------------
(* Properties of a run of generateVideo *)

InLog(m) == \E k \in 1..Len(progressLog) : progressLog[k] = m

\* the fallback branch of the catch block was entered
FallbackStarted == InLog(PFallback) \/ InLog(PQuotaStock)

\* word occurs in msg when the case of msg is ignored (word is lower case)
ContainsIgnoringCase(msg, word) ==
  \E i \in 1..(Len(msg) - Len(word) + 1) :
    \A j \in 1..Len(word) : ToLowerChar(msg[i + j - 1]) = word[j]

CaughtMessage == ErrorMessageOf(TheValue(caught))

\* C2: the fallback branch is entered exactly when the failure caught from
\* primary generation has a message containing "quota" or "billing", case
\* ignored; without a caught failure it is never entered; the message
\* "Quota exceeded for project" enters it, and the message "Requested entity
\* was not found" does not and makes generateVideo reject.
C2_FallbackIffQuotaOrBilling ==
  /\ caught = None => ~FallbackStarted
  /\ caught # None =>
       /\ FallbackStarted <=> (\/ ContainsIgnoringCase(CaughtMessage, Quota)
                               \/ ContainsIgnoringCase(CaughtMessage, Billing))
       /\ CaughtMessage = MsgQuotaExceeded => FallbackStarted
       /\ CaughtMessage = MsgEntityNotFound =>
            ~FallbackStarted /\ settled.state = "rejected"

\* "Quota exceeded for project" (capital Q) was caught and the fallback it
\* started produced the result
C2_Witness ==
  /\ caught = Some(Err(MsgQuotaExceeded))
  /\ FallbackStarted
  /\ settled.state = "resolved"
  /\ TheValue(settled.value).isFallback

\* C3: a caught failure whose message contains 'Requested entity was not
\* found' never starts the fallback, and generateVideo rejects with the
\* guidance message about the API key.
C3_AuthNeverFallsBack ==
  (caught # None /\ Includes(CaughtMessage, MsgEntityNotFound)) =>
    /\ ~FallbackStarted
    /\ settled = [state |-> "rejected", value |-> Some(Err(MsgApiKeyGuidance))]

\* scene segmentation (multi-clip) or the stock lookup (single-source) was called
SubstituteAttempted ==
  IF version = "multi"
    THEN \E k \in 1..Len(calls) : calls[k] = "generateContent:scenes"
    ELSE lookup # <<>>

\* C4: when generateVideo rejects after a recoverable (quota/billing) failure
\* of primary generation, the substitute path has been attempted.
C4_SubstituteBeforeReject ==
  (settled.state = "rejected" /\ caught # None /\ IsRecoverable(CaughtMessage)) =>
    SubstituteAttempted

FallbackStarts ==
  Cardinality({k \in 1..Len(progressLog) : progressLog[k] \in {PFallback, PQuotaStock}})

\* C5: the fallback branch is entered at most once per run, whatever fails
\* inside it; when generateVideo rejects after the fallback was entered the
\* task ends in error with the message of the rejection, and a result
\* produced after the fallback was entered is a fallback result.
C5_NoSecondFallback ==
  /\ FallbackStarts <= 1
  /\ (FallbackStarted /\ settled.state = "rejected" /\ pc = "done") =>
       /\ TheTask.status = "error"
       /\ TheTask.error = Some(TaskErrorMessage(TheValue(settled.value)))
  /\ (FallbackStarted /\ settled.state = "resolved") =>
       TheValue(settled.value).isFallback

\* a quota/billing failure was raised inside the fallback path (after the
\* segmentation or the lookup was started) and the task ended in error
C5_Witness ==
  /\ FallbackStarted
  /\ SubstituteAttempted
  /\ settled.state = "rejected"
  /\ IsRecoverable(ErrorMessageOf(TheValue(settled.value)))
  /\ pc = "done"
  /\ TheTask.status = "error"

\* C6: with every call eventually returning or throwing and the handle
\* eventually reporting done, a task that is generating eventually is in
\* success or error; the poll loop goes on exactly while the handle it holds
\* is not done.
C6_Terminates ==
  /\ [](pc \in {"awaitTimer", "awaitGetOperation"} =>
          (operation # None /\ ~TheValue(operation).done))
  /\ (TheTask.status = "generating") ~> (TheTask.status \in {"success", "error"})

\* a run that polled MaxPolls times and ended in success
C6_Witness ==
  /\ pc = "done"
  /\ pollCount = MaxPolls
  /\ TheTask.status = "success"

\* the position of a message among the phases (0: not a phase message)
PhaseRank(m) ==
  IF m = PInit THEN 1
  ELSE IF m = Msg("Video rendering started. This may take a few minutes...") THEN 2
  ELSE IF m[1] = PInProgress(0)[1] THEN 3
  ELSE IF m = PFinalizing THEN 4
  ELSE IF m = PDownloading THEN 5
  ELSE IF m = PSuccess THEN 6
  ELSE 0

PhaseLog == SelectSeq(progressLog, LAMBDA m : PhaseRank(m) > 0)

\* C7: the phase messages of a run come in the order initializing, rendering
\* started, any number of in-progress updates, finalizing, downloading,
\* success, each phase after its predecessor; the first message of a run is
\* the initializing one; the success message is the last message when it is
\* there; the task is moved to error at most once.
C7_PhaseOrder ==
  /\ \A k \in 1..Len(PhaseLog) :
       LET r == PhaseRank(PhaseLog[k])
       IN IF k = 1 THEN r = 1
          ELSE LET q == PhaseRank(PhaseLog[k - 1])
               IN \/ r = q + 1
                  \/ r = 3 /\ q = 3
                  \/ r = 4 /\ q = 2
  /\ progressLog # <<>> => progressLog[1] = PInit
  /\ \A k \in 1..Len(progressLog) : progressLog[k] = PSuccess => k = Len(progressLog)
  /\ errorMoves <= 1

\* a narrated run that polled, went through every phase and ended in success
C7_Witness ==
  /\ pc = "done"
  /\ TheTask.status = "success"
  /\ pollCount >= 1
  /\ voice # "none"
  /\ progressLog[Len(progressLog)] = PSuccess

\* C8: a missing download link or a non-OK download is fatal: the fallback
\* is not started, generateVideo rejects and the task ends in error.
C8_DownloadFailureIsFatal ==
  (caught # None /\ (\/ CaughtMessage = MsgNoDownloadLink
                     \/ StartsWith(CaughtMessage, MsgFailedDownload))) =>
    /\ ~FallbackStarted
    /\ settled.state = "rejected"
    /\ pc = "done" => TheTask.status = "error"

\* C9: a result of generateVideo carries an audio blob and a caption
\* document when the voice is not 'none', and neither when it is 'none'.
C9_NarrationAttached ==
  settled.state = "resolved" =>
    LET result == TheValue(settled.value)
    IN IF voice # "none"
         THEN result.audioBlob /\ IsSome(result.vttContent)
         ELSE ~result.audioBlob /\ result.vttContent = None


\* generateVideo resolved with the stitched result of the multi-clip fallback
Stitched ==
  /\ settled.state = "resolved"
  /\ TheValue(settled.value).isStitched = Some(TRUE)

StitchedUrls == TheValue(TheValue(settled.value).videoUrls)

\* the url of scene i in the stitched result: what its lookup resolved to,
\* or the placeholder
SceneUrl(i) ==
  IF lookup[i].url = None THEN GenericFallback ELSE TheValue(lookup[i].url)

\* link ends with the text q
EndsWith(link, q) ==
  Len(link) >= Len(q) /\ SubSeq(link, Len(link) - Len(q) + 1, Len(link)) = q

\* C13: whatever the order in which the lookups of the scenes completed,
\* position i of videoUrls holds the url resolved for scene i (a link found
\* for the description of scene i, or the placeholder).
C13_SceneOrderPreserved ==
  Stitched =>
    \A i \in 1..Len(TheValue(scenes)) :
      /\ lookup[i].prompt = TheValue(scenes)[i].scene_description
      /\ StitchedUrls[i] = SceneUrl(i)
      /\ StitchedUrls[i] # GenericFallback =>
           EndsWith(StitchedUrls[i], TheValue(scenes)[i].scene_description)

\* the lookup of scene 2 completed before the lookup of scene 1, both found
\* a link, and the result was assembled
C13_Witness ==
  /\ Stitched
  /\ Len(lookup) >= 2
  /\ lookup[2].rank < lookup[1].rank
  /\ lookup[1].url # None /\ lookup[2].url # None
  /\ StitchedUrls[1] # StitchedUrls[2]

\* C14: one lookup per scene is issued before any is awaited; the result is
\* assembled only when all of them have settled; videoUrls has one entry per
\* scene, the placeholder where the lookup returned null and the resolved
\* url elsewhere; the task ends in success.
C14_FanOutFanIn ==
  /\ pc = "awaitLookups" => Len(lookup) = Len(TheValue(scenes))
  /\ InLog(Msg("Multi-clip video compiled!")) =>
       \A i \in 1..Len(lookup) : lookup[i].state = "resolved"
  /\ Stitched =>
       /\ \A i \in 1..Len(lookup) : lookup[i].state = "resolved"
       /\ Len(StitchedUrls) = Len(TheValue(scenes))
       /\ \A i \in 1..Len(StitchedUrls) :
            IF lookup[i].url = None
              THEN StitchedUrls[i] = GenericFallback
              ELSE StitchedUrls[i] = TheValue(lookup[i].url)
       /\ pc = "done" => TheTask.status = "success" /\ TheValue(TheTask.result).isFallback

\* two scenes: the lookup of the first found nothing, the second found a
\* link, and the task ended in success
C14_Witness ==
  /\ Stitched
  /\ pc = "done"
  /\ TheTask.status = "success"
  /\ Len(StitchedUrls) = 2
  /\ StitchedUrls[1] = GenericFallback
  /\ StitchedUrls[2] # GenericFallback

----------------------------------------------------------------------------
(* One activation of findStockVideo, await by await *)

StockFrame ==
  UNCHANGED <<tasks, rendered, inflight, nextId, version, apiKeys, pc, finalScript,
              pollCount, operation, progressLog, calls, narration, scenes, lookup,
              videoBlob, settled, caught, player, errorMoves, history>>

\* the keyword call returns, or throws into the catch of findStockVideo
KeywordsReturn ==
  /\ stock.at = "keywords"
  /\ \/ stock' = [stock EXCEPT !.at = "done"]
     \/ stock' = AfterKeywords(stock, apiKeys)
  /\ StockFrame

\* the Pexels call ends
PexelsReturn ==
  /\ stock.at = "pexels"
  /\ \E response \in PexelsResponses(stock.prompt) :
       stock' = AfterPexels(stock, apiKeys, response)
  /\ StockFrame

\* the Pixabay call ends
PixabayReturn ==
  /\ stock.at = "pixabay"
  /\ \E response \in PixabayResponses(stock.prompt) :
       stock' = AfterPixabay(stock, response)
  /\ StockFrame

\* findStockVideo is called with a prompt or a scene description
InitStock ==
  /\ tasks = <<>> /\ rendered = <<>> /\ inflight = {} /\ nextId = 0
  /\ version = "multi"
  /\ apiKeys \in [pexelsApiKey : KeyValues, pixabayApiKey : KeyValues]
  /\ pc = "idle" /\ finalScript = <<>> /\ pollCount = 0 /\ operation = None
  /\ progressLog = <<>> /\ calls = <<>> /\ narration = NoNarration /\ scenes = None
  /\ lookup = <<>> /\ videoBlob = FALSE
  /\ settled = [state |-> "pending", value |-> None]
  /\ caught = None /\ errorMoves = 0 /\ history = <<>>
  /\ player = NoPlayer
  /\ \E prompt \in {PromptCat, Scene(1).scene_description, Scene(2).scene_description} :
       stock = StartLookup(prompt)

NextStock == KeywordsReturn \/ PexelsReturn \/ PixabayReturn

SpecStock == InitStock /\ [][NextStock]_vars

\* C10: with both keys configured, when the Pexels call ends without a link
\* (empty list, no MP4 file, non-OK response, or an exception thrown by the
\* call) Pixabay is queried, and a match of Pixabay is what findStockVideo
\* returns.
C10_FailedProviderSkipped ==
  (/\ stock.at = "done"
   /\ Truthy(apiKeys.pexelsApiKey) /\ Truthy(apiKeys.pixabayApiKey)
   /\ stock.pexels \in {"empty", "noFile", "nonOk", "threw"}) =>
    /\ stock.pixabay # "notQueried"
    /\ stock.pixabay = "url" => stock.url = Some(PixabayMedium \o stock.prompt)

\* the calls of a provider ended without a link, or the provider was not asked
NoMatch == {"notQueried", "empty", "noFile", "nonOk"}

\* C11: findStockVideo asks Pexels before Pixabay; a link of Pexels (the sd
\* MP4 file, else the first MP4 file) is returned without asking Pixabay;
\* when Pexels has no match and Pixabay has a link, Pixabay's link is
\* returned; when neither has a match, or no key is set, null is returned
\* and the fallback puts the generic placeholder in its place.
C11_ProviderPriority ==
  /\ stock.at = "pixabay" =>
       (Truthy(apiKeys.pexelsApiKey) => stock.pexels \in NoMatch \ {"notQueried"})
  /\ stock.at = "done" =>
       /\ stock.pexels = "url" =>
            /\ stock.url \in {Some(FileSd(stock.prompt).link), Some(FileHd(stock.prompt).link)}
            /\ stock.pixabay = "notQueried"
       /\ (stock.pexels \in NoMatch /\ stock.pixabay = "url") =>
            stock.url = Some(PixabayMedium \o stock.prompt)
       /\ (stock.pexels \in NoMatch /\ stock.pixabay \in NoMatch) =>
            /\ stock.url = None
            /\ VideoUrls(<<stock>>) = <<GenericFallback>>

\* both keys set, Pexels had no MP4 file and Pixabay's link was returned
C11_Witness ==
  /\ stock.at = "done"
  /\ Truthy(apiKeys.pexelsApiKey)
  /\ stock.pexels = "noFile"
  /\ stock.pixabay = "url"
  /\ stock.url = Some(PixabayMedium \o stock.prompt)

\* C12: findStockVideo never rejects: whatever the keyword call and the
\* provider calls do (exception, non-OK response, malformed body), the
\* activation goes on to the next provider or returns, and it returns null
\* or a link; after an exception it returns null.
C12_NeverRejects ==
  /\ stock.at \in {"keywords", "pexels", "pixabay", "done"}
  /\ stock.at = "done" =>
       /\ stock.url \in {None, Some(FileSd(stock.prompt).link),
                         Some(FileHd(stock.prompt).link),
                         Some(PixabayMedium \o stock.prompt)}
       /\ ({stock.pexels, stock.pixabay} \cap {"threw", "badBody"} # {}) => stock.url = None

\* Pexels answered non-OK, the Pixabay call threw, and null was returned
C12_Witness ==
  /\ stock.at = "done"
  /\ stock.pexels = "nonOk"
  /\ stock.pixabay = "threw"
  /\ stock.url = None

----------------------------------------------------------------------------
(* parseVtt (MultiClipPlayer).  Times are in milliseconds.                 *)

MaxVttLines == 3    \* lines of a caption document drawn line by line

\* a JavaScript number (in milliseconds), NaN, undefined
Num(n)    == [kind |-> "number", ms |-> n]
NaN       == [kind |-> "NaN"]
Undefined == [kind |-> "undefined"]

\* x * k and x + y of JavaScript numbers: NaN and undefined give NaN
Times(x, k) == IF x.kind = "number" THEN Num(x.ms * k) ELSE NaN
Plus(x, y)  == IF x.kind = "number" /\ y.kind = "number" THEN Num(x.ms + y.ms) ELSE NaN

DecimalDigits == <<"0","1","2","3","4","5","6","7","8","9">>
IsDigit(c) == \E d \in 1..10 : DecimalDigits[d] = c
DigitValue(c) == (CHOOSE d \in 1..10 : DecimalDigits[d] = c) - 1

\* the longest prefix of s made of digits
RECURSIVE TakeDigits(_)
TakeDigits(s) ==
  IF s = <<>> \/ ~IsDigit(Head(s)) THEN <<>> ELSE <<Head(s)>> \o TakeDigits(Tail(s))

\* the value of a run of digits
RECURSIVE ToInt(_)
ToInt(ds) ==
  IF ds = <<>> THEN 0 ELSE ToInt(SubSeq(ds, 1, Len(ds) - 1)) * 10 + DigitValue(ds[Len(ds)])

RECURSIVE SkipSpaces(_)
SkipSpaces(s) == IF s # <<>> /\ IsSpace(Head(s)) THEN SkipSpaces(Tail(s)) ELSE s

\* parseFloat: leading white space, a sign, digits, a fraction; what follows
\* is ignored; NaN when there is no digit (fractions of up to three digits,
\* no exponent)
ParseFloat(str) ==
  LET t    == SkipSpaces(str)
      sign == IF t # <<>> /\ Head(t) = "-" THEN -1 ELSE 1
      u    == IF t # <<>> /\ Head(t) \in {"+", "-"} THEN Tail(t) ELSE t
      ip   == TakeDigits(u)
      rest == SubSeq(u, Len(ip) + 1, Len(u))
      fp   == IF rest # <<>> /\ Head(rest) = "." THEN TakeDigits(Tail(rest)) ELSE <<>>
  IN IF ip = <<>> /\ fp = <<>> THEN NaN
     ELSE Num(sign * (ToInt(ip) * 1000 + ToInt(SubSeq(fp \o <<"0","0","0">>, 1, 3))))

\* String.prototype.indexOf, 1-based, 0 when sep does not occur
IndexOf(s, sep) ==
  IF Includes(s, sep)
    THEN CHOOSE i \in 1..Len(s) :
           /\ SubSeq(s, i, i + Len(sep) - 1) = sep
           /\ \A j \in 1..(i - 1) : SubSeq(s, j, j + Len(sep) - 1) # sep
    ELSE 0

\* String.prototype.split with a non-empty separator
RECURSIVE Split(_, _)
Split(s, sep) ==
  LET i == IndexOf(s, sep)
  IN IF i = 0 THEN <<s>>
     ELSE <<SubSeq(s, 1, i - 1)>> \o Split(SubSeq(s, i + Len(sep), Len(s)), sep)

Arrow       == <<"-","-",">">>
SpacedArrow == <<" ","-","-",">"," ">>

\* mutant of TimeToSeconds: the hours are not told from the minutes
TimeToSecondsNoHours(time) ==
  LET strs  == Split(time, <<":">>)
      parts == [k \in 1..Len(strs) |-> ParseFloat(strs[k])]
  IN Plus(Times(parts[1], 60), IF Len(parts) >= 2 THEN parts[2] ELSE Undefined)

\* the callback of the map in parseVtt: a timestamp to seconds
TimeToSeconds(time) ==
  LET strs  == Split(time, <<":">>)
      parts == [k \in 1..Len(strs) |-> ParseFloat(strs[k])]
  IN IF Len(parts) > 2
       THEN Plus(Plus(Times(parts[1], 3600), Times(parts[2], 60)), parts[3])
       ELSE Plus(Times(parts[1], 60), IF Len(parts) >= 2 THEN parts[2] ELSE Undefined)

\* const [start, end] = lines[i].split(' --> ').map(...)
CueOfLine(line) ==
  LET times == Split(line, SpacedArrow)
  IN [start |-> TimeToSeconds(times[1]),
      end   |-> IF Len(times) >= 2 THEN TimeToSeconds(times[2]) ELSE Undefined]

RECURSIVE CuesOfLines(_)
CuesOfLines(lines) ==
  IF lines = <<>> THEN <<>>
  ELSE (IF Includes(Head(lines), Arrow) THEN <<CueOfLine(Head(lines))>> ELSE <<>>)
         \o CuesOfLines(Tail(lines))

parseVtt(vttContent) ==
  IF ~Truthy(vttContent) THEN <<>> ELSE CuesOfLines(Split(vttContent, <<"\n">>))

\* lines of caption documents
LineA == <<"0","0",":","0","0",".","0","0","0"," ","-","-",">"," ","0","0",":","0","2",".","5","0","0">>
LineB == <<"0","0",":","0","2",".","5","0","0"," ","-","-",">"," ","0","0",":","0","5",".","0","0","0">>
LineHours == <<"0",":","0","1",":","0","0",".","0","0","0"," ","-","-",">"," ","0",":","0","1",":","0","1",".","5","0","0">>
LineHello == <<"H","e","l","l","o">>
LineNoSpaces == <<"0","0",":","0","1","-","-",">","0","0",":","0","2">>

LineNoEnd == <<"0","0",":","0","1",".","0","0","0"," ","-","-",">"," ">>
LineNonNumeric == <<"a","a",":","b","b"," ","-","-",">"," ","0","0",":","0","2",".","0","0","0">>

VttLines ==
  {VttHeader, <<>>, LineA, LineB, LineHours, LineHello, LineNoSpaces, LineNoEnd,
   LineNonNumeric}

RECURSIVE Join(_)
Join(lines) ==
  IF lines = <<>> THEN <<>>
  ELSE IF Len(lines) = 1 THEN lines[1]
  ELSE lines[1] \o <<"\n">> \o Join(Tail(lines))

\* the caption document of a two-cue narration
LineWorld == <<"W","o","r","l","d">>

\* the lines of the caption document of a two-cue narration
ExampleLines == <<VttHeader, <<>>, LineA, LineHello, <<>>, LineB, LineWorld>>

\* the documents the fetch of vttUrl may deliver, as their lines
VttLineSeqs ==
  {ExampleLines} \cup UNION {[1..n -> VttLines] : n \in 0..MaxVttLines}

----------------------------------------------------------------------------
(* MultiClipPlayer: one mounted player with a caption track.               *)

PlayerFrame ==
  UNCHANGED <<tasks, rendered, inflight, nextId, version, apiKeys, pc,
              finalScript, pollCount, operation, progressLog, calls,
              narration, scenes, lookup, stock, videoBlob, settled, caught,
              errorMoves, history>>

\* the state after the first render and its effects: isPlaying false, the
\* refs empty, the video element on videoUrls[0], the track's mode set by the
\* effect of showSubtitles, the timeupdate listener registered with the
\* handleTimeUpdate of this render
Mount(lines, videoUrls, enabled) ==
  [mounted           |-> TRUE,
   vttLines          |-> lines,
   vttText           |-> Join(lines),
   videoUrls         |-> videoUrls,
   cuesLoaded        |-> FALSE,
   sceneCues         |-> <<>>,
   currentSceneIndex |-> -1,
   videoSrc          |-> videoUrls[1],
   videoTime         |-> 0,
   videoPaused       |-> TRUE,
   audioTime         |-> 0,
   audioPaused       |-> TRUE,
   isPlaying         |-> FALSE,
   listenerIsPlaying |-> FALSE,
   showSubtitles     |-> enabled,
   trackMode         |-> IF enabled THEN "showing" ELSE "hidden",
   last              |-> "mount",
   requested         |-> -1,
   time              |-> 0,
   clockRead         |-> 0,
   switched          |-> FALSE,
   playTold          |-> FALSE,
   seeked            |-> FALSE]

\* what a handler that is not handleTimeUpdate leaves of the last run of it
Handled(p, name) ==
  [p EXCEPT !.last = name, !.requested = -1, !.time = 0, !.clockRead = 0, !.switched = FALSE,
            !.playTold = FALSE, !.seeked = FALSE]

\* fetch(vttUrl).then(res => res.text()).then(text => ...)
CuesLoaded ==
  /\ player.mounted
  /\ ~player.cuesLoaded
  /\ player' = [Handled(player, "cuesLoaded") EXCEPT
                  !.cuesLoaded = TRUE,
                  !.sceneCues  = parseVtt(player.vttText)]
  /\ PlayerFrame

\* everything that is not the player, at rest
PlayerRest ==
  /\ tasks = <<>> /\ rendered = <<>> /\ inflight = {} /\ nextId = 0
  /\ version = "multi"
  /\ apiKeys = [pexelsApiKey |-> <<>>, pixabayApiKey |-> <<>>]
  /\ pc = "idle" /\ finalScript = <<>> /\ pollCount = 0 /\ operation = None
  /\ progressLog = <<>> /\ calls = <<>> /\ narration = NoNarration /\ scenes = None
  /\ lookup = <<>> /\ videoBlob = FALSE
  /\ settled = [state |-> "pending", value |-> None]
  /\ caught = None /\ errorMoves = 0 /\ history = <<>>
  /\ stock = [prompt |-> <<>>, at |-> "idle", pexels |-> "notQueried",
              pixabay |-> "notQueried", url |-> None]

InitVtt ==
  /\ PlayerRest
  /\ \E lines \in VttLineSeqs, enabled \in BOOLEAN :
       player = Mount(lines, <<"v0", "v1">>, enabled)

NextVtt == CuesLoaded

SpecVtt == InitVtt /\ [][NextVtt]_vars


\* the cue a well-formed timing line stands for (none for any other line)
Cue(start, end) == [start |-> Num(start), end |-> Num(end)]

ExpectedCue(line) ==
  IF line = LineA THEN <<Cue(0, 2500)>>
  ELSE IF line = LineB THEN <<Cue(2500, 5000)>>
  ELSE IF line = LineHours THEN <<Cue(60000, 61500)>>
  ELSE <<>>

RECURSIVE ExpectedCues(_)
ExpectedCues(lines) ==
  IF lines = <<>> THEN <<>> ELSE ExpectedCue(Head(lines)) \o ExpectedCues(Tail(lines))

IsNumberCue(cue) == cue.start.kind = "number" /\ cue.end.kind = "number"

\* C20: parseVtt returns one cue per well-formed timing line "start --> end",
\* in the order of the document, each timestamp H:MM:SS.mmm or MM:SS.mmm
\* converted to seconds (hours*3600 + minutes*60 + seconds); the document of
\* the two lines 00:00.000 --> 00:02.500 and 00:02.500 --> 00:05.000 yields
\* the cues (0, 2.5) and (2.5, 5).
C20_ParseVtt ==
  (player.mounted /\ player.cuesLoaded) =>
    /\ SelectSeq(player.sceneCues, IsNumberCue) = ExpectedCues(player.vttLines)
    /\ player.vttLines = ExampleLines =>
         player.sceneCues = <<Cue(0, 2500), Cue(2500, 5000)>>

C20_Witness ==
  /\ player.mounted /\ player.cuesLoaded
  /\ player.vttLines = <<LineB, LineHours, LineA>>
  /\ player.sceneCues = <<Cue(2500, 5000), Cue(60000, 61500), Cue(0, 2500)>>


----------------------------------------------------------------------------
(* MultiClipPlayer: play, pause, timing updates, seek, captions.           *)

Line02 == <<"0","0",":","0","0",".","0","0","0"," ","-","-",">"," ","0","0",":","0","2",".","0","0","0">>
Line25 == <<"0","0",":","0","2",".","0","0","0"," ","-","-",">"," ","0","0",":","0","5",".","0","0","0">>
Line03 == <<"0","0",":","0","0",".","0","0","0"," ","-","-",">"," ","0","0",":","0","3",".","0","0","0">>

\* two cues (0,2) (2,5); two cues that overlap, (0,3) (2,5)
TwoCueLines == <<VttHeader, <<>>, Line02, LineHello, <<>>, Line25, LineWorld>>
OverlapLines == <<VttHeader, <<>>, Line03, LineHello, <<>>, Line25, LineWorld>>

PlayerLineSeqs == {TwoCueLines, OverlapLines}
VideoLists     == {<<"v0">>, <<"v0", "v1">>}

\* the clock of the narration, the master: the values it is observed at
AudioTimes    == {0, 1000, 2000, 4900, 5000}
AudioDuration == CHOOSE t \in AudioTimes : \A u \in AudioTimes : u <= t

\* how far the clock of a playing video is found from the master clock
Drifts == {-600, -500, 0, 300, 600}

SyncThreshold == 500

\* mutant of InCue: the end of a cue belongs to it
InCueClosed(cue, time) ==
  /\ cue.start.kind = "number" /\ cue.end.kind = "number"
  /\ time >= cue.start.ms
  /\ time <= cue.end.ms

\* cue => time >= cue.start && time < cue.end; a comparison with NaN or
\* undefined is false
InCue(cue, time) ==
  /\ cue.start.kind = "number" /\ cue.end.kind = "number"
  /\ time >= cue.start.ms
  /\ time < cue.end.ms

\* Array.prototype.findIndex, 0-based, -1 when no element matches
FindIndex(cues, time) ==
  IF \E i \in 1..Len(cues) : InCue(cues[i], time)
    THEN (CHOOSE i \in 1..Len(cues) :
            /\ InCue(cues[i], time)
            /\ \A j \in 1..(i - 1) : ~InCue(cues[j], time)) - 1
    ELSE -1

Abs(n) == IF n < 0 THEN -n ELSE n

\* mutant of NeedsSync: a difference of exactly the threshold is corrected
NeedsSyncInclusive(videoTime, time) == Abs(videoTime - time) >= SyncThreshold

\* Math.abs(videoRef.current.currentTime - time) > 0.5
NeedsSync(videoTime, time) == Abs(videoTime - time) > SyncThreshold

\* mutant of handleTimeUpdate: the scene index is not compared with the
\* number of videos (an index past the end of videoUrls reads undefined)
handleTimeUpdateNoLengthTest(p, clock, playing, mode) ==
  LET time       == p.audioTime
      sceneIndex == FindIndex(p.sceneCues, time)
      switch     == /\ sceneIndex # -1
                    /\ sceneIndex # p.currentSceneIndex
      read       == IF switch THEN 0 ELSE clock
      sync       == NeedsSync(read, time)
  IN [p EXCEPT
        !.currentSceneIndex = IF switch THEN sceneIndex ELSE @,
        !.videoSrc          = IF switch
                                THEN IF sceneIndex < Len(p.videoUrls)
                                       THEN p.videoUrls[sceneIndex + 1] ELSE "undefined"
                                ELSE @,
        !.videoPaused       = IF switch THEN ~playing ELSE @,
        !.trackMode         = IF switch THEN mode ELSE @,
        !.videoTime         = IF sync THEN time ELSE read,
        !.time              = time,
        !.clockRead         = read,
        !.switched          = switch,
        !.playTold          = switch /\ playing,
        !.seeked            = sync]

\* handleTimeUpdate of the render that saw isPlaying = playing, run when the
\* clock of the video reads clock.  Assigning src loads the element anew: it
\* is paused, its clock is 0, and its text track is left in the mode `mode`.
handleTimeUpdate(p, clock, playing, mode) ==
  LET time       == p.audioTime
      sceneIndex == FindIndex(p.sceneCues, time)
      switch     == /\ sceneIndex # -1
                    /\ sceneIndex < Len(p.videoUrls)
                    /\ sceneIndex # p.currentSceneIndex
      read       == IF switch THEN 0 ELSE clock
      sync       == NeedsSync(read, time)
  IN [p EXCEPT
        !.currentSceneIndex = IF switch THEN sceneIndex ELSE @,
        !.videoSrc          = IF switch THEN p.videoUrls[sceneIndex + 1] ELSE @,
        !.videoPaused       = IF switch THEN ~playing ELSE @,
        !.trackMode         = IF switch THEN mode ELSE @,
        !.videoTime         = IF sync THEN time ELSE read,
        !.time              = time,
        !.clockRead         = read,
        !.switched          = switch,
        !.playTold          = switch /\ playing,
        !.seeked            = sync]

\* the clock of the video when the master clock reads time
VideoClocks(p, time) ==
  IF p.videoPaused THEN {p.videoTime}
  ELSE {c \in {time + d : d \in Drifts} : c >= 0}

\* the mode of the text track after the element loaded a new source: kept,
\* or reset (to disabled, or to what the default attribute of the track asks)
TrackModesAfterLoad(p) ==
  {p.trackMode, "disabled", IF p.showSubtitles THEN "showing" ELSE "disabled"}

\* the play, pause button (both play() calls are taken to succeed)
handlePlayPause ==
  /\ player.mounted
  /\ player' = [Handled(player, "playPause") EXCEPT
                  !.audioPaused = player.isPlaying,
                  !.videoPaused = player.isPlaying,
                  !.audioTime   = IF ~player.isPlaying /\ @ = AudioDuration THEN 0 ELSE @,
                  !.isPlaying   = ~player.isPlaying]
  /\ PlayerFrame

\* a timeupdate event of the audio element: the listener is the
\* handleTimeUpdate registered by the effect that depends on [audioUrl]
AudioTimeUpdate ==
  /\ player.mounted
  /\ \E time \in AudioTimes :
       /\ IF player.audioPaused THEN time = player.audioTime ELSE time >= player.audioTime
       /\ \E clock \in VideoClocks(player, time), mode \in TrackModesAfterLoad(player) :
            player' = handleTimeUpdate([player EXCEPT !.last = "timeupdate", !.requested = -1,
                                               !.audioTime = time],
                                       clock, player.listenerIsPlaying, mode)
  /\ PlayerFrame

\* mutant of SeekThenUpdate: the scene is left to the next timing update
SeekOnly(p, time, clock, mode) ==
  [Handled(p, "seek") EXCEPT !.requested = time, !.audioTime = time]

\* the body of handleSeek
SeekThenUpdate(p, time, clock, mode) ==
  handleTimeUpdate([p EXCEPT !.last = "seek", !.requested = time, !.audioTime = time],
                   clock, p.isPlaying, mode)

\* the range input
handleSeek ==
  /\ player.mounted
  /\ \E time \in AudioTimes :
       \E clock \in VideoClocks(player, player.audioTime), mode \in TrackModesAfterLoad(player) :
         player' = SeekThenUpdate(player, time, clock, mode)
  /\ PlayerFrame

\* the captions button, and the effect of showSubtitles
ToggleSubtitles ==
  /\ player.mounted
  /\ player' = [Handled(player, "toggleSubtitles") EXCEPT
                  !.showSubtitles = ~player.showSubtitles,
                  !.trackMode     = IF ~player.showSubtitles THEN "showing" ELSE "hidden"]
  /\ PlayerFrame

\* the narration ends: the ended listener
AudioEnded ==
  /\ player.mounted
  /\ ~player.audioPaused
  /\ player' = [Handled(player, "ended") EXCEPT
                  !.audioTime   = AudioDuration,
                  !.audioPaused = TRUE,
                  !.isPlaying   = FALSE]
  /\ PlayerFrame

\* the replay button
handleReplay ==
  /\ player.mounted
  /\ player' = [Handled(player, "replay") EXCEPT
                  !.audioTime   = 0,
                  !.audioPaused = FALSE,
                  !.videoPaused = IF player.isPlaying THEN @ ELSE FALSE,
                  !.isPlaying   = TRUE]
  /\ PlayerFrame

InitPlayer ==
  /\ PlayerRest
  /\ \E lines \in PlayerLineSeqs, videoUrls \in VideoLists, enabled \in BOOLEAN :
       player = Mount(lines, videoUrls, enabled)

NextPlayer ==
  \/ CuesLoaded
  \/ handlePlayPause
  \/ AudioTimeUpdate
  \/ handleSeek
  \/ ToggleSubtitles
  \/ AudioEnded
  \/ handleReplay

SpecPlayer == InitPlayer /\ [][NextPlayer]_vars


\* the handlers that run handleTimeUpdate
TimingHandlers == {"timeupdate", "seek"}

\* the 0-based index of the first cue, in scan order, whose interval
\* [start, end) contains t; -1 when there is none
FirstCue(cues, t) ==
  LET has(i) == /\ IsNumberCue(cues[i])
                /\ cues[i].start.ms <= t /\ t < cues[i].end.ms
  IN IF \E i \in 1..Len(cues) : has(i)
       THEN (CHOOSE i \in 1..Len(cues) : has(i) /\ \A j \in 1..(i - 1) : ~has(j)) - 1
       ELSE -1

HasVideo(p, i) == i # -1 /\ i < Len(p.videoUrls)

\* C15: after every run of handleTimeUpdate the active scene is the index of
\* the first cue, in scan order, whose half-open interval [start, end)
\* contains the master time, and the video plays that scene's url; when no
\* cue contains the time, or the index has no video, the scene and the source
\* stay what they were.  With cues (0,2) (2,5) and videos v0, v1: v0 at 1.0,
\* v1 at 2.0 and at 4.9, and the last scene is kept at 5.0.
C15_ActiveScene ==
  [][(player'.mounted /\ player'.last \in TimingHandlers) =>
       LET t == player'.audioTime
           i == FirstCue(player.sceneCues, t)
       IN /\ HasVideo(player, i) =>
               /\ player'.currentSceneIndex = i
               /\ player'.videoSrc = player.videoUrls[i + 1]
          /\ ~HasVideo(player, i) =>
               /\ player'.currentSceneIndex = player.currentSceneIndex
               /\ player'.videoSrc = player.videoSrc
          /\ (/\ player.sceneCues = <<Cue(0, 2000), Cue(2000, 5000)>>
              /\ player.videoUrls = <<"v0", "v1">>) =>
               /\ t = 1000 => player'.videoSrc = "v0"
               /\ t \in {2000, 4900} => player'.videoSrc = "v1"
               /\ t = 5000 => player'.videoSrc = player.videoSrc
     ]_vars

C15_Witness ==
  /\ player.mounted /\ player.last = "timeupdate"
  /\ player.sceneCues = <<Cue(0, 2000), Cue(2000, 5000)>>
  /\ player.videoUrls = <<"v0", "v1">>
  /\ player.audioTime = 5000
  /\ player.currentSceneIndex = 1 /\ player.videoSrc = "v1"

\* C16: when a run of handleTimeUpdate switches the video source while the
\* master audio is playing, the video is told to play after the switch.
C16_ResumeAfterSwitch ==
  [][(/\ player'.mounted /\ player'.last \in TimingHandlers
      /\ player'.switched
      /\ ~player'.audioPaused) => player'.playTold
    ]_vars

\* C17: a run of handleTimeUpdate forces the clock of the video to the master
\* time if and only if the two differ by more than 0.5 seconds, and a forced
\* seek changes neither the scene index nor the source: they change only to
\* the cue of the master time.
C17_DriftCorrection ==
  [][(player'.mounted /\ player'.last \in TimingHandlers) =>
       LET t == player'.audioTime
       IN /\ player'.seeked <=> Abs(player'.clockRead - t) > 500
          /\ player'.videoTime = IF player'.seeked THEN t ELSE player'.clockRead
          /\ (/\ player'.seeked
              /\ \/ player'.currentSceneIndex # player.currentSceneIndex
                 \/ player'.videoSrc # player.videoSrc) =>
               /\ player'.currentSceneIndex = FirstCue(player.sceneCues, t)
               /\ player'.videoSrc = player.videoUrls[player'.currentSceneIndex + 1]
     ]_vars

C17_Witness ==
  /\ player.mounted /\ player.last = "timeupdate"
  /\ ~player.switched
  /\ Abs(player.clockRead - player.audioTime) = 500
  /\ ~player.seeked
  /\ player.videoTime = player.clockRead

\* C18: when handleSeek(t) returns, the master clock reads t and the active
\* scene and the source are those of the cue that contains t (when such a
\* cue with a video exists), no timing-update event having run.
C18_SeekRecomputes ==
  [][(player'.mounted /\ player'.last = "seek") =>
       LET t == player'.requested
           i == FirstCue(player.sceneCues, t)
       IN /\ player'.audioTime = t
          /\ HasVideo(player, i) =>
               /\ player'.currentSceneIndex = i
               /\ player'.videoSrc = player.videoUrls[i + 1]
     ]_vars

C18_Witness ==
  /\ player.mounted /\ player.last = "seek"
  /\ player.requested = 2000 /\ player.audioTime = 2000
  /\ player.switched
  /\ player.currentSceneIndex = 1 /\ player.videoSrc = "v1"

\* C19: in every state the text track is showing if and only if the caption
\* toggle is on, also after the video source changed.
C19_TrackFollowsToggle ==
  player.mounted => (player.trackMode = "showing" <=> player.showSubtitles)


\* C21: a line that contains the arrow but is not a well-formed timing line
\* (no end, no spaces around the arrow, parts that are not numbers)
\* contributes no cue: every cue of parseVtt has a numeric start and a numeric
\* end, and the cues are those of the well-formed lines of the document.
C21_MalformedSkipped ==
  (player.mounted /\ player.cuesLoaded) =>
    /\ \A i \in 1..Len(player.sceneCues) : IsNumberCue(player.sceneCues[i])
    /\ player.sceneCues = ExpectedCues(player.vttLines)


\* the segmentation response has been received
ScenesReceived ==
  /\ InLog(Msg("Breaking script into scenes..."))
  /\ pc # "awaitScenes"

\* the scenes follow the schema: a list whose scenes have a description and
\* a narration, both non-empty
ValidScenes(sc) ==
  /\ IsSome(sc)
  /\ \A i \in 1..Len(TheValue(sc)) :
       /\ Truthy(TheValue(sc)[i].scene_description)
       /\ Truthy(TheValue(sc)[i].narration)

\* C22: when the segmentation response has no scenes list, or a scene whose
\* description or narration is missing or empty, no stock lookup is issued,
\* no stitched result is built, and the finished task is in error.
C22_InvalidScenesFatal ==
  (version = "multi" /\ ScenesReceived /\ ~ValidScenes(scenes)) =>
    /\ lookup = <<>>
    /\ ~Stitched
    /\ pc = "done" => TheTask.status = "error"


IdsOf(ts) == {ts[k].id : k \in 1..Len(ts)}

IdsOfSet(set) == {t.id : t \in set}

\* the ids whose record is not the same in ts and in us
ChangedIds(ts, us) ==
  {id \in IdsOf(ts) :
     {ts[k] : k \in {j \in 1..Len(ts) : ts[j].id = id}}
       # {us[k] : k \in {j \in 1..Len(us) : us[j].id = id}}}

\* C23: every update of the queue made for a run of task X (its start, a
\* progress callback, its success, its error) changes the record with X's id
\* and no other record, also with several runs in flight and after other
\* tasks have finished.
C23_OnlyOwnRecord ==
  [][LET changed  == ChangedIds(tasks, tasks')
         started  == IdsOfSet(inflight' \ inflight)
         finished == IdsOfSet(inflight \ inflight')
     IN /\ started # {} => changed \subseteq started
        /\ finished # {} => changed \subseteq finished /\ Cardinality(finished) = 1
        /\ (started = {} /\ finished = {}) =>
             /\ Cardinality(changed) <= 1
             /\ changed \subseteq IdsOfSet(inflight)]_vars

\* one task has finished and the other, still running, shows a progress
\* message of its run
C23_Witness ==
  \E k, j \in 1..Len(tasks) :
    /\ tasks[k].status \in {"success", "error"}
    /\ tasks[j].status = "generating"
    /\ tasks[j].progressMessage = Msg("Downloading video...")
    /\ Cardinality(inflight) = 1


\* C24: a run is started from the UI (Generate, Process Queue) only in a
\* state where no task of the queue is generating, in the queue itself as in
\* the view the buttons were rendered from.
C24_SingleFlightAtStart ==
  [][(inflight' \ inflight # {}) =>
       /\ ~SomeStatus(tasks, "generating")
       /\ ~SomeStatus(rendered, "generating")]_vars

\* Generate started a run after the run of the older task had finished
C24_Witness ==
  /\ Len(tasks) = 2
  /\ tasks[1].status = "generating"
  /\ tasks[2].status \in {"success", "error"}
  /\ IdsOfSet(inflight) = {tasks[1].id}


\* the record with this id in ts
RecordOf(ts, id) == ts[CHOOSE k \in 1..Len(ts) : ts[k].id = id]

\* a step of Process Queue: runs start and no task is created
ProcessQueueStep == nextId' = nextId /\ inflight' \ inflight # {}

\* C25 as stated: Process Queue dispatches every task of the queue that is
\* pending at the time of the click.
C25_DispatchesEveryPending ==
  [][ProcessQueueStep =>
       \A k \in 1..Len(tasks) :
         tasks[k].status = "pending" => tasks'[k].status = "generating"]_vars

\* C25: Process Queue dispatches every task that is pending in the view the
\* click was made on, so several tasks are generating at once; a task is
\* dispatched only while it is pending and not running, so each is run
\* once; a run that ends changes the status and the result of its own task
\* only.
C25_BatchDispatch ==
  [][/\ ProcessQueueStep =>
          \A k \in 1..Len(rendered) :
            rendered[k].status = "pending" =>
              /\ rendered[k] \in inflight' \ inflight
              /\ RecordOf(tasks', rendered[k].id).status = "generating"
     /\ \A t \in inflight' \ inflight :
          /\ t.id \notin IdsOfSet(inflight)
          /\ t.id \in IdsOf(tasks) => RecordOf(tasks, t.id).status = "pending"
     /\ \A k \in 1..Len(tasks') :
          tasks'[k].id \in IdsOfSet(inflight') <=> tasks'[k].status = "generating"
     /\ \A t \in inflight \ inflight' :
          /\ inflight \ inflight' = {t}
          /\ RecordOf(tasks', t.id).status \in {"success", "error"}
          /\ \A k \in 1..Len(tasks) : tasks[k].id # t.id => tasks'[k] = tasks[k]
    ]_vars

\* two tasks were dispatched by one click; one has failed and the other is
\* still generating
C25_Witness ==
  /\ Len(tasks) = 2
  /\ \A k \in 1..2 : tasks[k].script = <<>> /\ tasks[k].prompt = PromptCat
  /\ tasks[1].status = "error"
  /\ tasks[2].status = "generating"
  /\ IdsOfSet(inflight) = {tasks[2].id}


\* C26: a task has an error message if and only if its status is error, and
\* the message is that of the rejection of generateVideo; a task in success
\* has a result and no error, a fallback result included.
C26_ErrorIffErrorStatus ==
  \A k \in 1..Len(tasks) :
    /\ IsSome(tasks[k].error) <=> tasks[k].status = "error"
    /\ tasks[k].status = "error" =>
         /\ settled.state = "rejected"
         /\ tasks[k].error = Some(TheValue(settled.value).message)
    /\ tasks[k].status = "success" =>
         /\ IsSome(tasks[k].result)
         /\ tasks[k].error = None


SingleSourceResult(r) ==
  /\ r.videoBlob
  /\ r.isStitched = Some(FALSE)
  /\ ~r.isFallback
  /\ r.videoUrls = None

StitchedResult(r) ==
  /\ IsSome(r.videoUrls)
  /\ r.isStitched = Some(TRUE)
  /\ r.isFallback
  /\ ~r.videoBlob

\* C27: every result generateVideo (geminiService.ts) resolves to is either
\* single-source (a video blob, isStitched and isFallback false, no
\* videoUrls) or stitched (videoUrls, isStitched and isFallback true, no
\* video blob), never both; a stitched result carries the audio and the
\* captions of the narration.
C27_ResultVariants ==
  (version = "multi" /\ settled.state = "resolved") =>
    LET r == TheValue(settled.value)
    IN /\ SingleSourceResult(r) \/ StitchedResult(r)
       /\ ~(SingleSourceResult(r) /\ StitchedResult(r))
       /\ StitchedResult(r) =>
            /\ r.audioBlob
            /\ IsSome(r.vttContent) /\ Truthy(TheValue(r.vttContent))

C27_Witness ==
  /\ version = "multi" /\ settled.state = "resolved"
  /\ StitchedResult(TheValue(settled.value))
  /\ TheValue(settled.value).audioBlob
  /\ StartsWith(TheValue(TheValue(settled.value).vttContent), VttHeader)
  /\ Len(TheValue(TheValue(settled.value).videoUrls)) = 2


\* C28: the queue is append-only: every step keeps every task of the queue,
\* with its id and in its order, new tasks being put in front (Generate) or
\* behind (CSV import); and a record changes its status, progress message,
\* result or error only in a step of processTask for that task, which is
\* starting, running or ending in the step.
C28_AppendOnly ==
  [][/\ Len(tasks') >= Len(tasks)
     /\ IdsOf(tasks) \subseteq IdsOf(tasks')
     /\ \E offset \in {0, Len(tasks') - Len(tasks)} :
          \A k \in 1..Len(tasks) : tasks'[k + offset].id = tasks[k].id
     /\ \A k \in 1..Len(tasks), j \in 1..Len(tasks') :
          (tasks'[j].id = tasks[k].id /\ tasks'[j] # tasks[k]) =>
            tasks[k].id \in IdsOfSet(inflight \cup inflight')
    ]_vars

\* an import after a task has finished: the finished task is still there, in
\* front of the imported one
C28_Witness ==
  /\ Len(tasks) = 2
  /\ tasks[1].status = "success" /\ tasks[1].id = 1
  /\ tasks[2].status = "pending" /\ tasks[2].id = 2


\* the positions of the in-progress messages in a log
InProgressAt(log) ==
  {k \in 1..Len(log) :
     log[k][1] = "Rendering in progress... (${minutesElapsed.toFixed(1)} min)"}

\* the positions of the getVideosOperation calls
PollsAt(cs) == {k \in 1..Len(cs) : cs[k] = "getVideosOperation"}

\* k * 10 seconds in minutes, rounded to one decimal, in tenths of a minute
TenthsOfMinute(k) == (k * 10 * 10 + 30) \div 60

\* C29: getVideosOperation is called only while the most recent handle is
\* not done; each poll emits one in-progress message, before its call; the
\* message of the k-th poll reports k * 10 seconds (in minutes, to one
\* decimal), strictly increasing with k; no poll and no in-progress message
\* follows a done handle; and "Finalizing video..." is emitted only after a
\* done handle was observed.
C29_PollLoop ==
  [][/\ (PollsAt(calls') # PollsAt(calls) \/ InProgressAt(progressLog') # InProgressAt(progressLog)) =>
          /\ IsSome(operation) /\ ~TheValue(operation).done
          /\ Cardinality(PollsAt(calls')) = Cardinality(PollsAt(calls)) + 1
          /\ Cardinality(InProgressAt(progressLog')) = Cardinality(InProgressAt(progressLog)) + 1
     /\ Cardinality(InProgressAt(progressLog')) = Cardinality(PollsAt(calls'))
     /\ \A i \in InProgressAt(progressLog') :
          LET k == Cardinality({j \in InProgressAt(progressLog') : j <= i})
          IN progressLog'[i][2] = TenthsOfMinute(k)
     /\ \A i, j \in InProgressAt(progressLog') :
          i < j => progressLog'[i][2] < progressLog'[j][2]
     /\ InLog(PFinalizing)' => IsSome(operation') /\ TheValue(operation').done
    ]_vars

\* two polls, then the handle was done and the run went on
C29_Witness ==
  /\ pollCount = 2
  /\ Cardinality(PollsAt(calls)) = 2
  /\ {progressLog[k][2] : k \in InProgressAt(progressLog)} = {2, 3}
  /\ IsSome(operation) /\ TheValue(operation).done
  /\ InLog(PFinalizing)


CallsAt(cs, name) == {k \in 1..Len(cs) : cs[k] = name}

\* every script generation is called before every caption generation
ScriptBeforeEveryCaption ==
  \A i \in CallsAt(calls, "generateContent:script"), j \in CallsAt(calls, "generateContent:vtt") :
    i < j

\* the caption call of a narration follows the script generation, if there
\* is one: generateScript is the first call of the run (geminiService.ts),
\* or the call just before the caption call (generateNarration)
ScriptBeforeCaptionOfNarration ==
  /\ version = "multi" => CallsAt(calls, "generateContent:script") \subseteq {1}
  /\ version = "single" =>
       \A j \in CallsAt(calls, "generateContent:vtt") :
         j > 1 /\ calls[j - 1] = "generateContent:script"

\* the speech call of a narration is the call that follows its caption call
CaptionBeforeSpeech ==
  \A j \in CallsAt(calls, "generateContent:tts") :
    j > 1 /\ calls[j - 1] = "generateContent:vtt"

PrimaryCalls(cs) ==
  {k \in 1..Len(cs) : cs[k] \in {"generateVideos", "getVideosOperation", "fetch:video"}}

\* the fallback is entered by a step that catches what the primary attempt
\* threw, and no call of the primary attempt follows
FallbackAfterThrow ==
  /\ (~FallbackStarted /\ FallbackStarted') =>
       /\ CallsAt(calls, "generateVideos") # {}
       /\ caught = None /\ IsSome(caught')
       /\ IsRecoverable(ErrorMessageOf(TheValue(caught')))
  /\ FallbackStarted =>
       /\ PrimaryCalls(calls') = PrimaryCalls(calls)
       /\ pc' \notin {"awaitGenerateVideos", "awaitTimer", "awaitGetOperation",
                    "awaitFetch", "awaitBlob"}
       /\ pc' \in {"awaitNarrationScript", "awaitVtt", "awaitTts"} =>
            narration'.ctx = "fallback"

FallbackScriptCalls(cs) ==
  CallsAt(cs, "generateContent:scenes") \cup CallsAt(cs, "generateContent:vtt")
    \cup CallsAt(cs, "generateContent:tts")

\* the step in which the catch block takes a recoverable failure
CatchesRecoverable ==
  /\ caught = None /\ IsSome(caught')
  /\ IsRecoverable(ErrorMessageOf(TheValue(caught')))

\* C31 (geminiService.ts): the script is generated at most once, as the first
\* call of the run, and is not changed once primary generation has started;
\* when the catch block takes a recoverable failure of a request with a
\* voice and no script of its own, the script call was made before
\* generateVideos, and the fallback segments (and then narrates) that script;
\* if the script is empty at that point the promise rejects with 'Cannot
\* generate fallback without a script.' and the run has issued and will
\* issue no segmentation, narration or lookup call.
C31_ScriptForFallback ==
  [][version = "multi" =>
       /\ pc \notin {"idle", "awaitScript"} => finalScript' = finalScript
       /\ CallsAt(calls', "generateContent:script") \subseteq {1}
       /\ CatchesRecoverable =>
            /\ (voice # "none" /\ ~Truthy(TheTask.script)) =>
                 /\ calls[1] = "generateContent:script"
                 /\ calls[2] = "generateVideos"
            /\ IF Truthy(finalScript)
                 THEN /\ calls' = Append(calls, "generateContent:scenes")
                      /\ pc' = "awaitScenes"
                 ELSE /\ settled' = [state |-> "rejected", value |-> Some(Err(MsgNoScript))]
                      /\ calls' = calls
       /\ (InLog(PFallback)' /\ ~Truthy(finalScript')) =>
            /\ settled'.state = "rejected"
            /\ TheValue(settled'.value) = Err(MsgNoScript)
            /\ FallbackScriptCalls(calls') = {}
            /\ lookup' = <<>>
       /\ (InLog(PFallback)' /\ pc' \in {"awaitScenes", "awaitVtt", "awaitTts", "awaitLookups"}) =>
            Truthy(finalScript')
    ]_vars

\* a CSV task with a voice: its script was generated first, primary
\* generation failed on quota, and the fallback narrated and resolved
C31_Witness ==
  /\ version = "multi" /\ voice = "Kore" /\ ~Truthy(TheTask.script)
  /\ Truthy(finalScript)
  /\ InLog(PFallback)
  /\ calls[1] = "generateContent:script"
  /\ CallsAt(calls, "generateContent:tts") # {}
  /\ settled.state = "resolved"

\* the url the resolver found for the prompt, or the placeholder
StockOrPlaceholder ==
  IF IsSome(lookup[1].url) /\ Truthy(TheValue(lookup[1].url))
    THEN TheValue(lookup[1].url) ELSE GenericFallback

\* C32 (part_005): after a recoverable failure there is exactly one stock
\* lookup, for the prompt of the task; the fallback video is fetched once,
\* after the lookup resolved, from the url it found or else from the
\* placeholder; the result has a video blob and isFallback = true, and
\* carries audio and captions exactly when the voice is not 'none'; a
\* response that is not OK rejects with the message naming that url, and a
\* rejected run leaves the task in error.
C32_SingleSourceFallback ==
  (version = "single" /\ FallbackStarted) =>
    /\ Len(lookup) = 1 /\ lookup[1].prompt = TheTask.prompt
    /\ Cardinality(CallsAt(calls, "fetch:fallback")) <= 1
    /\ CallsAt(calls, "fetch:fallback") # {} =>
         /\ lookup[1].state = "resolved"
         /\ InLog(Msg("Fetching generic fallback...")) <=> StockOrPlaceholder = GenericFallback
         /\ InLog(Msg("Fetching footage from Pexels/Pixabay...")) <=> StockOrPlaceholder # GenericFallback
    /\ settled.state = "resolved" =>
         LET r == TheValue(settled.value)
         IN /\ r.isFallback /\ r.videoBlob /\ r.videoUrls = None
            /\ r.audioBlob <=> voice # "none"
            /\ IsSome(r.vttContent) <=> voice # "none"
            /\ CallsAt(calls, "fetch:fallback") # {}
    /\ (settled.state = "rejected" /\ pc \in {"settled", "done"}
          /\ calls[Len(calls)] = "fetch:fallback"
          /\ StartsWith(TheValue(settled.value).message, MsgFailedFallback)) =>
         TheValue(settled.value) = Err(MsgFailedFallback \o StockOrPlaceholder \o <<".">>)
    /\ (settled.state = "rejected" /\ pc = "done") => TheTask.status = "error"

\* the resolver found nothing, the placeholder was fetched with narration
C32_Witness ==
  /\ version = "single" /\ FallbackStarted /\ voice = "Kore"
  /\ lookup[1].url = None
  /\ settled.state = "resolved"
  /\ TheValue(settled.value).isFallback /\ TheValue(settled.value).audioBlob

\* the caption document the narration holds, once the caption call returned
CaptionDocument == TheValue(narration.vttContent)

\* the cleaned outputs of the caption call: trimmed, fences removed
CleanedOutputs == {RemoveFences(Trim(text)) : text \in VttTexts}

\* C33: the caption document of a narration begins with WEBVTT; it is the
\* cleaned output itself when that starts with WEBVTT (no second header),
\* and WEBVTT, a blank line and the cleaned output when it does not.  Both
\* services.
C33_CaptionHeader ==
  IsSome(narration.vttContent) =>
    /\ StartsWith(CaptionDocument, VttHeader)
    /\ \E c \in CleanedOutputs :
         /\ StartsWith(c, VttHeader) => CaptionDocument = c
         /\ ~StartsWith(c, VttHeader) => CaptionDocument = VttHeader \o <<"\n","\n">> \o c
    /\ \/ CaptionDocument \in CleanedOutputs
       \/ SubSeq(CaptionDocument, Len(VttHeader) + 3, Len(CaptionDocument)) \in
            {c \in CleanedOutputs : ~StartsWith(c, VttHeader)}

\* a fenced document that came with its header: returned as it is, without
\* the fences and without a second header
C33_Witness ==
  /\ IsSome(narration.vttContent)
  /\ CaptionDocument = VttHeader \o <<"\n","\n">> \o VttBody
  /\ narration.audioBlob
  /\ settled.state = "resolved"

\* the promise rejected with 'TTS generation failed.'
RejectedTtsFailed ==
  settled.state = "rejected" /\ settled.value = Some(Err(MsgTtsFailed))

\* C34: the step that follows the speech call either has the audio, or
\* rejects the promise, or (a quota failure of the call on the primary path)
\* enters the fallback; 'TTS generation failed.' on the primary path is
\* caught without starting the fallback, and in the fallback it is not
\* caught; the task of a run rejected with it ends in error with that
\* message; and no result has captions without audio.  Both services.
C34_NoAudioIsFatal ==
  [][/\ pc = "awaitTts" =>
          \/ narration'.audioBlob
          \/ settled'.state = "rejected"
          \/ /\ narration.ctx = "primary" /\ ~FallbackStarted /\ FallbackStarted'
             /\ IsRecoverable(ErrorMessageOf(TheValue(caught')))
     /\ RejectedTtsFailed' =>
          /\ ~narration'.audioBlob
          /\ narration'.ctx = "primary" => ~FallbackStarted' /\ caught' = Some(Err(MsgTtsFailed))
          /\ narration'.ctx = "fallback" => FallbackStarted' /\ caught' # Some(Err(MsgTtsFailed))
          /\ pc' = "done" =>
               /\ tasks'[1].status = "error"
               /\ tasks'[1].error = Some(MsgTtsFailed)
               /\ tasks'[1].result = None
     /\ settled'.state = "resolved" =>
          (IsSome(TheValue(settled'.value).vttContent) <=> TheValue(settled'.value).audioBlob)
    ]_vars

\* the speech call of the fallback narration returned no audio data: the
\* task failed with 'TTS generation failed.'
C34_Witness ==
  /\ RejectedTtsFailed
  /\ narration.ctx = "fallback" /\ IsSome(narration.vttContent) /\ ~narration.audioBlob
  /\ pc = "done"
  /\ TheTask.status = "error" /\ TheTask.error = Some(MsgTtsFailed)

\* the payload of the primary video was downloaded: the run went on after
\* 'Downloading video...' with the narration or the success message
PrimaryDownloaded ==
  /\ videoBlob
  /\ \E k \in 1..(Len(progressLog) - 1) :
       /\ progressLog[k] = PDownloading
       /\ progressLog[k + 1] \notin {PFallback, PQuotaStock}

\* C35: a run that downloaded the primary video never resolves to a fallback
\* result; what it resolves to has the downloaded payload.
C35_DownloadedVideoKept ==
  (PrimaryDownloaded /\ settled.state = "resolved") =>
    /\ ~TheValue(settled.value).isFallback
    /\ TheValue(settled.value).videoBlob
    /\ ~FallbackStarted


\* the on-demand script generation is the only call the run made
OnlyScriptCalled == calls = <<"generateContent:script">>

\* C36 (geminiService.ts): a run whose on-demand script generation failed
\* with a quota or billing message enters the fallback path; the promise is
\* not rejected with that failure.
C36_ScriptQuotaFallsBack ==
  (version = "multi" /\ OnlyScriptCalled /\ settled.state = "rejected"
     /\ IsRecoverable(ErrorMessageOf(TheValue(settled.value)))) =>
    FallbackStarted

\* QueueItem: isStitched && videoUrls && videoUrls.length > 0
QueueItemMountsPlayer(result) ==
  /\ result.isStitched = Some(TRUE)
  /\ IsSome(result.videoUrls)
  /\ Len(TheValue(result.videoUrls)) > 0

\* preview of VideoGenerator: isStitched && videoUrls (an empty array is truthy)
PreviewMountsPlayer(result) ==
  /\ result.isStitched = Some(TRUE)
  /\ IsSome(result.videoUrls)

\* C37: the stitched result of a task in success, for which the preview
\* mounts the multi-clip player, has at least one video url, and every url
\* of it is a non-empty text.
C37_StitchedHasClips ==
  \A k \in 1..Len(tasks) :
    (tasks[k].status = "success" /\ IsSome(tasks[k].result)
       /\ PreviewMountsPlayer(TheValue(tasks[k].result))) =>
      LET videoUrls == TheValue(TheValue(tasks[k].result).videoUrls)
      IN /\ Len(videoUrls) >= 1
         /\ \A i \in 1..Len(videoUrls) : Truthy(videoUrls[i])
         /\ QueueItemMountsPlayer(TheValue(tasks[k].result))

Min(a, b) == IF a < b THEN a ELSE b

\* the scene index is -1 with the first video as source, or the index of a
\* cue that has a video, with that video as source
SceneIndexInRange ==
  player.mounted =>
    \/ /\ player.currentSceneIndex = -1
       /\ player.videoSrc = player.videoUrls[1]
    \/ /\ player.currentSceneIndex >= 0
       /\ player.currentSceneIndex < Min(Len(player.sceneCues), Len(player.videoUrls))
       /\ player.videoSrc = player.videoUrls[player.currentSceneIndex + 1]

\* C38: in every state of the player, also before the caption document is
\* loaded, the scene index is -1 or an index below both the number of cues
\* and the number of videos, and the source of the video element is the
\* video of that index (the first video while the index is -1); and while
\* the cues are not loaded no step changes the index or the source.
C38_SceneIndexInRange ==
  [][/\ SceneIndexInRange
     /\ SceneIndexInRange'
     /\ ~player.cuesLoaded =>
          /\ player'.currentSceneIndex = -1
          /\ player'.currentSceneIndex = player.currentSceneIndex
          /\ player'.videoSrc = player.videoSrc
    ]_vars

\* a seek to 2.0 before the caption document arrived: no scene yet
C38_Witness ==
  /\ player.mounted /\ ~player.cuesLoaded
  /\ player.last = "seek" /\ player.audioTime = 2000
  /\ player.currentSceneIndex = -1
  /\ player.videoSrc = "v0"

\* C39: in every state of the player the audio and the video element are
\* both paused when isPlaying is false and both playing when it is true.
C39_SamePlayState ==
  player.mounted =>
    /\ ~player.isPlaying => (player.audioPaused /\ player.videoPaused)
    /\ player.isPlaying => (~player.audioPaused /\ ~player.videoPaused)

\* the positions of the history items of a task
ItemsOf(id) == {i \in 1..Len(history) : history[i].id = id}

\* C40: in every state of the queue the history has exactly one item for
\* each task in success, with the id and the prompt of the task and the
\* references and the isFallback flag of its result, and no item for a task
\* that is pending, generating or in error; every item belongs to a task,
\* so no completion of a batch task is lost or counted twice.
C40_HistoryOfSuccess ==
  /\ \A k \in 1..Len(tasks) :
       IF tasks[k].status = "success"
         THEN /\ Cardinality(ItemsOf(tasks[k].id)) = 1
              /\ \A i \in ItemsOf(tasks[k].id) :
                   LET result == TheValue(tasks[k].result)
                   IN /\ history[i].prompt = tasks[k].prompt
                      /\ history[i].videoUrl = result.videoUrl
                      /\ history[i].videoUrls = result.videoUrls
                      /\ history[i].audioUrl = result.audioUrl
                      /\ history[i].vttUrl = result.vttUrl
                      /\ history[i].isFallback = result.isFallback
         ELSE ItemsOf(tasks[k].id) = {}
  /\ \A i \in 1..Len(history) : history[i].id \in IdsOf(tasks)
  /\ Len(history) = Cardinality({k \in 1..Len(tasks) : tasks[k].status = "success"})

\* two imported tasks ran and succeeded, the second one first: the history
\* holds both items, the one of the first task in front
C40_Witness ==
  /\ Len(tasks) = 2
  /\ tasks[1].id = 1 /\ tasks[1].status = "success"
  /\ tasks[2].id = 2 /\ tasks[2].status = "success"
  /\ Len(history) = 2
  /\ history[1].id = 1 /\ history[2].id = 2
  /\ history[2].isFallback /\ ~history[1].isFallback

====
